---- MODULE Spec2Model ----
(***************************************************************************)
(* The SQL-subset translator of the chat backend:                          *)
(*   isSafeQuery            backend/src/services/geminiService.js          *)
(*   executeDynamicQuery,                                                  *)
(*   parseAndExecuteSQL,                                                   *)
(*   applyWhereClause, applyOrderBy, applyGroupBy, applyLimit              *)
(*                          backend/src/services/databaseService.js        *)
(* A text is a sequence of one-character strings, so that the regular      *)
(* expressions and string methods of the source are computed character by  *)
(* character.  The store client (supabase) is recorded as the list of      *)
(* method calls made on it.                                                *)
(***************************************************************************)
EXTENDS Integers, Sequences, FiniteSets, TLC

VARIABLES
  pc,       \* "idle" | "awaiting" (suspended at the await of the builder) | "done"
  sql,      \* the sqlQuery argument of the current executeDynamicQuery call
  toks,     \* the tokens the argument was written from (input bookkeeping)
  log,      \* every call made on the store client during the current call
  frame,    \* locals of parseAndExecuteSQL kept across the await
  answer,   \* {data, error, count} the await produced
  outcome,  \* "none" | "returned" | "thrown": how executeDynamicQuery ended
  result,   \* the object executeDynamicQuery returned
  otpStore, \* the Map of the OTP service: phone number -> {otp, expiresAt}
  now,      \* Date.now(), in milliseconds
  otpCalls, \* the calls made on the OTP service, each with its time and result
  hq,       \* the current call of a helper method: its executeQuery call
  queryCache, \* the Map of generateSQLQuery: cache key -> {query, timestamp}
  gem       \* the locals of each request's call of generateSQLQuery

dbVars == <<pc, sql, toks, log, frame, answer, outcome, result>>
otpVars == <<otpStore, now, otpCalls>>

\* what the actions on one part of the program leave unchanged
gemVars == <<queryCache, gem>>
notDb == <<otpVars, hq, gemVars>>
notOtp == <<dbVars, hq, gemVars>>
notHelper == <<dbVars, otpVars, gemVars>>
notGem == <<dbVars, hq, otpStore, otpCalls>>

vars == <<pc, sql, toks, log, frame, answer, outcome, result, otpStore, now,
          otpCalls, hq, queryCache, gem>>

----------------------------------------------------------------------------
(* Characters and the JavaScript string primitives the source uses.        *)

UpperTable ==
  [a |-> "A", b |-> "B", c |-> "C", d |-> "D", e |-> "E", f |-> "F", g |-> "G",
   h |-> "H", i |-> "I", j |-> "J", k |-> "K", l |-> "L", m |-> "M", n |-> "N",
   o |-> "O", p |-> "P", q |-> "Q", r |-> "R", s |-> "S", t |-> "T", u |-> "U",
   v |-> "V", w |-> "W", x |-> "X", y |-> "Y", z |-> "Z"]
Digits == <<"0","1","2","3","4","5","6","7","8","9">>
WordChars ==
  {"a","b","c","d","e","f","g","h","i","j","k","l","m",
   "n","o","p","q","r","s","t","u","v","w","x","y","z",
   "A","B","C","D","E","F","G","H","I","J","K","L","M",
   "N","O","P","Q","R","S","T","U","V","W","X","Y","Z",
   "0","1","2","3","4","5","6","7","8","9","_"}

\* String.prototype.toUpperCase on one character
Upper(c) == IF c \in DOMAIN UpperTable THEN UpperTable[c] ELSE c
\* regex class \s
IsSpace(c) == c \in {" ", "\n", "\t", "\r"}
\* regex class \w
IsWord(c) == c \in WordChars
\* regex class \d
IsDigit(c) == \E d \in DOMAIN Digits : Digits[d] = c

toUpperCase(s) == [i \in 1..Len(s) |-> Upper(s[i])]

\* first index >= i that is past the end or holds no \s character (greedy \s*)
RECURSIVE SkipSpace(_, _)
SkipSpace(s, i) ==
  IF i > Len(s) THEN i ELSE IF IsSpace(s[i]) THEN SkipSpace(s, i + 1) ELSE i

\* greedy \w*
RECURSIVE SkipWord(_, _)
SkipWord(s, i) ==
  IF i > Len(s) THEN i ELSE IF IsWord(s[i]) THEN SkipWord(s, i + 1) ELSE i

\* greedy \d*
RECURSIVE SkipDigits(_, _)
SkipDigits(s, i) ==
  IF i > Len(s) THEN i ELSE IF IsDigit(s[i]) THEN SkipDigits(s, i + 1) ELSE i

\* first index >= i that is past the end or holds a \s character
RECURSIVE SkipNonSpace(_, _)
SkipNonSpace(s, i) ==
  IF i > Len(s) THEN i ELSE IF IsSpace(s[i]) THEN i ELSE SkipNonSpace(s, i + 1)

\* first index >= i that is past the end or holds the character c
RECURSIVE IndexOf(_, _, _)
IndexOf(s, c, i) ==
  IF i > Len(s) THEN i ELSE IF s[i] = c THEN i ELSE IndexOf(s, c, i + 1)

\* last index <= i that is before the start or holds no \s character
RECURSIVE BackSpace(_, _)
BackSpace(s, i) ==
  IF i < 1 THEN i ELSE IF IsSpace(s[i]) THEN BackSpace(s, i - 1) ELSE i

\* String.prototype.trim
trim(s) == SubSeq(s, SkipSpace(s, 1), BackSpace(s, Len(s)))

\* s.replace(/\s+/g, ' '): the characters that are not \s and the first
\* character of every run of \s, that one replaced by a space
CollapseSpaces(s) ==
  LET Kept(at) ==
        [k \in 1..Len(at) |-> IF IsSpace(s[at[k]]) THEN " " ELSE s[at[k]]]
  IN Kept(SelectSeq([i \in 1..Len(s) |-> i],
                    LAMBDA i : ~IsSpace(s[i]) \/ i = 1 \/ ~IsSpace(s[i - 1])))

\* s.replace(/;+$/, '')
RECURSIVE BackSemis(_, _)
BackSemis(s, i) ==
  IF i < 1 THEN i ELSE IF s[i] = ";" THEN BackSemis(s, i - 1) ELSE i
StripSemis(s) == SubSeq(s, 1, BackSemis(s, Len(s)))

\* String.prototype.startsWith / includes (case-sensitive)
LitAt(s, i, lit) ==
  /\ i >= 1
  /\ i + Len(lit) - 1 <= Len(s)
  /\ \A k \in 1..Len(lit) : s[i + k - 1] = lit[k]
startsWith(s, lit) == LitAt(s, 1, lit)
includes(s, lit) == \E i \in 1..(Len(s) - Len(lit) + 1) : LitAt(s, i, lit)

\* a literal of a regular expression with the i flag, matched at index i;
\* lit is the literal in upper case
LitAtCI(s, i, lit) ==
  /\ i >= 1
  /\ i + Len(lit) - 1 <= Len(s)
  /\ \A k \in 1..Len(lit) : Upper(s[i + k - 1]) = lit[k]

\* value of a run of decimal digits
RECURSIVE DigitsValue(_)
DigitsValue(d) ==
  IF d = <<>> THEN 0
  ELSE 10 * DigitsValue(SubSeq(d, 1, Len(d) - 1))
       + (CHOOSE v \in DOMAIN Digits : Digits[v] = d[Len(d)]) - 1

\* d without its trailing "0" digits
RECURSIVE DropTrailingZeros(_)
DropTrailingZeros(d) ==
  IF d = <<>> THEN d
  ELSE IF d[Len(d)] = "0" THEN DropTrailingZeros(SubSeq(d, 1, Len(d) - 1))
  ELSE d

\* parseFloat of a text matched by \d+(?:\.\d+)? : the number, as its integer
\* part and the significant digits of its fraction (4.0 and 4 are one number)
parseFloat(s) ==
  LET Parts(e) ==
        [num |-> DigitsValue(SubSeq(s, 1, e - 1)),
         frac |-> IF e <= Len(s) THEN DropTrailingZeros(SubSeq(s, e + 1, Len(s)))
                  ELSE <<>>]
  IN Parts(SkipDigits(s, 1))

\* parseInt of a text matched by \d+
parseInt(s) == DigitsValue(s)

----------------------------------------------------------------------------
(* Keywords and literals of the source.                                    *)

kSELECT == <<"S","E","L","E","C","T">>
kFROM == <<"F","R","O","M">>
kWHERE == <<"W","H","E","R","E">>
kLIMIT == <<"L","I","M","I","T">>
kORDER_BY == <<"O","R","D","E","R"," ","B","Y">>
kGROUP_BY == <<"G","R","O","U","P"," ","B","Y">>
kBETWEEN == <<"B","E","T","W","E","E","N">>
kAND == <<"A","N","D">>
kILIKE == <<"I","L","I","K","E">>
kDESC == <<"D","E","S","C">>
kDISTINCT_ == <<"D","I","S","T","I","N","C","T"," ">>
kCOUNT_STAR == <<"C","O","U","N","T","(","*",")">>
kSELECT_1 == <<"S","E","L","E","C","T"," ","1">>
kINTO == <<"I","N","T","O">>
kVALUES == <<"V","A","L","U","E","S">>
opEq == <<"=">>
opLt == <<"<">>
opGt == <<">">>
opGte == <<">","=">>
opLte == <<"<","=">>
star == <<"*">>

dangerousKeywords == <<
  <<"D","E","L","E","T","E">>, <<"I","N","S","E","R","T">>,
  <<"U","P","D","A","T","E">>, <<"D","R","O","P">>, <<"A","L","T","E","R">>,
  <<"C","R","E","A","T","E">>, <<"T","R","U","N","C","A","T","E">>,
  <<"E","X","E","C">>, <<"E","X","E","C","U","T","E">> >>

----------------------------------------------------------------------------
(* isSafeQuery                                                             *)

\* the indices at which \b is followed by a \w character
WordStarts(s) ==
  {i \in 1..Len(s) : IsWord(s[i]) /\ (i = 1 \/ ~IsWord(s[i - 1]))}

\* /\bKW\b/i.test(s) for one keyword kw; starts is WordStarts(s)
WordMatch(s, starts, kw) ==
  \E i \in starts :
    /\ LitAtCI(s, i, kw)
    /\ (i + Len(kw) > Len(s) \/ ~IsWord(s[i + Len(kw)]))

\* dangerousPattern with the keywords searched as substrings
dangerousPattern_substring(s, starts) ==
  \E k \in 1..Len(dangerousKeywords) :
    includes(toUpperCase(s), dangerousKeywords[k])

\* new RegExp(`\\b(${dangerousKeywords.join('|')})\\b`, 'i').test(s)
dangerousPattern(s, starts) ==
  \E k \in 1..Len(dangerousKeywords) : WordMatch(s, starts, dangerousKeywords[k])

\* isSafeQuery with startsWith applied to the text as written
isSafeQuery_caseSensitive(text) ==
  LET cleanSqlQuery == trim(CollapseSpaces(text))
      starts == WordStarts(cleanSqlQuery)
  IN IF ~startsWith(cleanSqlQuery, kSELECT) THEN FALSE
     ELSE IF dangerousPattern(cleanSqlQuery, starts) THEN FALSE
     ELSE IF WordMatch(cleanSqlQuery, starts, kINTO)
             \/ WordMatch(cleanSqlQuery, starts, kVALUES) THEN FALSE
     ELSE TRUE

isSafeQuery(text) ==
  LET cleanSqlQuery == trim(CollapseSpaces(text))
      upperSql == toUpperCase(cleanSqlQuery)
      starts == WordStarts(cleanSqlQuery)
  IN IF ~startsWith(upperSql, kSELECT) THEN FALSE
     ELSE IF dangerousPattern(cleanSqlQuery, starts) THEN FALSE
     ELSE IF WordMatch(cleanSqlQuery, starts, kINTO)
             \/ WordMatch(cleanSqlQuery, starts, kVALUES) THEN FALSE
     ELSE TRUE


----------------------------------------------------------------------------
(* The regular expressions of parseAndExecuteSQL and its helpers.  A       *)
(* pattern is the list of its elements; each element takes the longest     *)
(* text it can (greedy \s* \s+ \w+ \d+), which is what backtracking ends   *)
(* with for the patterns of the source: no element can give back a         *)
(* character that the element after it accepts.  The lazy groups           *)
(* ([\s\S]*?) are matched apart, by their first possible end.              *)

Lit(text) == [t |-> "lit", lit |-> text]   \* literal text, in upper case
Sp0 == [t |-> "s*", lit |-> <<>>]          \* \s*
Sp1 == [t |-> "s+", lit |-> <<>>]          \* \s+
Word == [t |-> "w+", lit |-> <<>>]         \* (\w+)
DigitRun == [t |-> "d+", lit |-> <<>>]     \* (\d+)
Number == [t |-> "num", lit |-> <<>>]      \* (\d+(?:\.\d+)?)
Quoted == [t |-> "str", lit |-> <<>>]      \* '([^']+)'

\* end (exclusive) of \d+(?:\.\d+)? matched at v, or v when it does not match
NumberEnd(s, v) ==
  LET Fraction(d) ==
        IF d > v /\ d + 1 <= Len(s) /\ s[d] = "." /\ IsDigit(s[d + 1])
        THEN SkipDigits(s, d + 1)
        ELSE d
  IN Fraction(SkipDigits(s, v))

\* end (exclusive) of '([^']+)' matched at v, or v when it does not match
QuotedEnd(s, v) ==
  LET Closing(q) == IF q > v + 1 /\ q <= Len(s) THEN q + 1 ELSE v
  IN IF v <= Len(s) /\ s[v] = "'" THEN Closing(IndexOf(s, "'", v + 1)) ELSE v

\* end (exclusive) of element el matched at index i, or 0 when it does not
\* match there
ElemEnd(s, i, el) ==
  LET NonEmpty(e) == IF e > i THEN e ELSE 0
  IN CASE el.t = "lit" -> IF LitAtCI(s, i, el.lit) THEN i + Len(el.lit) ELSE 0
       [] el.t = "s*" -> SkipSpace(s, i)
       [] el.t = "s+" -> NonEmpty(SkipSpace(s, i))
       [] el.t = "w+" -> NonEmpty(SkipWord(s, i))
       [] el.t = "d+" -> NonEmpty(SkipDigits(s, i))
       [] el.t = "num" -> NonEmpty(NumberEnd(s, i))
       [] el.t = "str" -> NonEmpty(QuotedEnd(s, i))

Fail == [ok |-> FALSE, ends |-> <<>>]

\* the elements pat[k], pat[k+1], ... matched one after the other; ends holds
\* the index the match starts at and the end of every element matched so far
RECURSIVE MatchSeq(_, _, _, _)
MatchSeq(s, pat, k, ends) ==
  LET Rest(e) == IF e = 0 THEN Fail
                 ELSE MatchSeq(s, pat, k + 1, Append(ends, e))
  IN IF k > Len(pat) THEN [ok |-> TRUE, ends |-> ends]
     ELSE Rest(ElemEnd(s, ends[Len(ends)], pat[k]))

\* the leftmost match of pat that starts at index pos or later
RECURSIVE Search(_, _, _)
Search(s, pos, pat) ==
  LET Or(m) == IF m.ok THEN m ELSE Search(s, pos + 1, pat)
  IN IF pos > Len(s) THEN Fail ELSE Or(MatchSeq(s, pat, 1, <<pos>>))

\* the text element k of match m took, and the index at which m ends
Group(s, m, k) == SubSeq(s, m.ends[k], m.ends[k + 1] - 1)
End(m) == m.ends[Len(m.ends)]

\* [...s.matchAll(pattern)]: the matches from left to right, each searched
\* from the end of the one before
RECURSIVE matchAll(_, _, _)
matchAll(s, pos, pat) ==
  LET Then(m) == IF m.ok THEN <<m>> \o matchAll(s, End(m), pat) ELSE <<>>
  IN Then(Search(s, pos, pat))

NoMatch == [ok |-> FALSE, g1 |-> <<>>]

\* the result of String.prototype.match with one group, element k of m
Capture(s, m, k) ==
  IF m.ok THEN [ok |-> TRUE, g1 |-> Group(s, m, k)] ELSE NoMatch

\* first index >= x at which one of the literals of stops starts, or
\* Len(s) + 1, where $ matches
RECURSIVE FirstStop(_, _, _)
FirstStop(s, x, stops) ==
  IF x > Len(s) THEN x
  ELSE IF \E k \in 1..Len(stops) : LitAtCI(s, x, stops[k]) THEN x
  ELSE FirstStop(s, x + 1, stops)

\* the group ([\s\S]*?) after match m, ended by (?:stops[1]|stops[2]|...|$)
LazyGroup(s, m, stops) ==
  IF m.ok
  THEN [ok |-> TRUE, g1 |-> SubSeq(s, End(m), FirstStop(s, End(m), stops) - 1)]
  ELSE NoMatch

\* cleanSQL.match(/FROM\s+(\w+)/i)
fromMatch(s) == Capture(s, Search(s, 1, <<Lit(kFROM), Sp1, Word>>), 3)

\* first index >= x at which \s+FROM matches, or Len(s) + 1
RECURSIVE FirstFromTail(_, _)
FirstFromTail(s, x) ==
  IF x > Len(s) THEN x
  ELSE IF IsSpace(s[x]) /\ LitAtCI(s, SkipSpace(s, x), kFROM) THEN x
  ELSE FirstFromTail(s, x + 1)

\* cleanSQL.match(/SELECT\s+([\s\S]*?)\s+FROM/i).  m is the leftmost match of
\* SELECT\s+ and q its end; the group ends at the first e >= q where \s+FROM
\* follows.  Where there is none, \s+ gives back its last space, which then
\* starts \s+FROM after an empty group.
selectMatch(s) ==
  LET Group1(m, q, e) ==
        IF e <= Len(s) THEN [ok |-> TRUE, g1 |-> SubSeq(s, q, e - 1)]
        ELSE IF q - 1 > m.ends[2] /\ LitAtCI(s, q, kFROM)
        THEN [ok |-> TRUE, g1 |-> <<>>]
        ELSE NoMatch
      After(m) == IF m.ok THEN Group1(m, End(m), FirstFromTail(s, End(m)))
                  ELSE NoMatch
  IN After(Search(s, 1, <<Lit(kSELECT), Sp1>>))

\* sql.match(/WHERE\s+([\s\S]*?)(?:ORDER BY|GROUP BY|LIMIT|$)/i)
whereMatch(s) ==
  LazyGroup(s, Search(s, 1, <<Lit(kWHERE), Sp1>>),
            <<kORDER_BY, kGROUP_BY, kLIMIT>>)

\* sql.match(/ORDER BY\s+([\s\S]*?)(?:LIMIT|$)/i)
orderMatch(s) ==
  LazyGroup(s, Search(s, 1, <<Lit(kORDER_BY), Sp1>>), <<kLIMIT>>)

\* sql.match(/LIMIT\s+(\d+)/i)
limitMatch(s) == Capture(s, Search(s, 1, <<Lit(kLIMIT), Sp1, DigitRun>>), 3)

----------------------------------------------------------------------------
(* Calls on the store client: the query builder is the list of the calls   *)
(* chained on it.                                                          *)

From(table) == [op |-> "from", table |-> table]
Select(columns, count, head) ==
  [op |-> "select", columns |-> columns, count |-> count, head |-> head]
Filter(op, column, value) == [op |-> op, column |-> column, value |-> value]
Order(column, ascending) ==
  [op |-> "order", column |-> column, ascending |-> ascending]
Limit(n) == [op |-> "limit", n |-> n]
Await == [op |-> "await"]

NumVal(text) == [t |-> "num", n |-> parseFloat(text)]
StrVal(text) == [t |-> "str", s |-> text]

\* the condition patterns of applyWhereClause in the order of the source, each
\* with the builder method its matches are handed to; all is FALSE where the
\* source takes the first match only (match instead of matchAll)
Conditions == <<
  [call |-> "eq", all |-> TRUE,
   pat |-> <<Word, Sp0, Lit(opEq), Sp0, Quoted>>],
  [call |-> "eq", all |-> TRUE,
   pat |-> <<Word, Sp0, Lit(opEq), Sp0, Number>>],
  [call |-> "lt", all |-> TRUE,
   pat |-> <<Word, Sp0, Lit(opLt), Sp0, Number>>],
  [call |-> "gt", all |-> TRUE,
   pat |-> <<Word, Sp0, Lit(opGt), Sp0, Number>>],
  [call |-> "gte", all |-> TRUE,
   pat |-> <<Word, Sp0, Lit(opGte), Sp0, Number>>],
  [call |-> "lte", all |-> TRUE,
   pat |-> <<Word, Sp0, Lit(opLte), Sp0, Number>>],
  [call |-> "between", all |-> FALSE,
   pat |-> <<Word, Sp1, Lit(kBETWEEN), Sp1, Number, Sp1, Lit(kAND), Sp1, Number>>],
  [call |-> "ilike", all |-> TRUE,
   pat |-> <<Word, Sp1, Lit(kILIKE), Sp0, Quoted>>] >>

\* the value element k of match m captured: the text between the quotes, or
\* parseFloat of the number
Value(s, m, k, el) ==
  IF el.t = "str" THEN StrVal(SubSeq(s, m.ends[k] + 1, m.ends[k + 1] - 2))
  ELSE NumVal(Group(s, m, k))

\* MatchFilters with BETWEEN read as excluding its two ends
MatchFilters_exclusive(s, c, m) ==
  IF c.call = "between"
  THEN <<Filter("gt", Group(s, m, 1), Value(s, m, 5, c.pat[5])),
         Filter("lt", Group(s, m, 1), Value(s, m, 9, c.pat[9]))>>
  ELSE <<Filter(c.call, Group(s, m, 1), Value(s, m, 5, c.pat[5]))>>

\* the calls one match m of condition c makes
MatchFilters(s, c, m) ==
  IF c.call = "between"
  THEN <<Filter("gte", Group(s, m, 1), Value(s, m, 5, c.pat[5])),
         Filter("lte", Group(s, m, 1), Value(s, m, 9, c.pat[9]))>>
  ELSE <<Filter(c.call, Group(s, m, 1), Value(s, m, 5, c.pat[5]))>>

RECURSIVE Filters(_, _, _, _)
Filters(s, c, ms, k) ==
  IF k > Len(ms) THEN <<>>
  ELSE MatchFilters(s, c, ms[k]) \o Filters(s, c, ms, k + 1)

\* the matches of condition c in the WHERE text
Matches(s, c) ==
  LET First(m) == IF m.ok THEN <<m>> ELSE <<>>
  IN IF c.all THEN matchAll(s, 1, c.pat) ELSE First(Search(s, 1, c.pat))

\* the filters applyWhereClause chains for conditions k, k+1, ...
RECURSIVE FiltersFrom(_, _)
FiltersFrom(whereClause, k) ==
  IF k > Len(Conditions) THEN <<>>
  ELSE Filters(whereClause, Conditions[k], Matches(whereClause, Conditions[k]), 1)
       \o FiltersFrom(whereClause, k + 1)

WhereFilters(whereClause) == FiltersFrom(whereClause, 1)

\* applyWhereClause handing the WHERE text to the store's or() filter
applyWhereClause_rawString(query, s) ==
  LET Apply(m) ==
        IF ~m.ok THEN query
        ELSE Append(query,
                    [op |-> "or", column |-> <<>>, value |-> StrVal(trim(m.g1))])
  IN Apply(whereMatch(s))

applyWhereClause(query, s) ==
  LET Apply(m) == IF ~m.ok THEN query ELSE query \o WhereFilters(trim(m.g1))
  IN Apply(whereMatch(s))

\* orderClause.split(',')[0].trim()
FirstTerm(orderClause) ==
  trim(SubSeq(orderClause, 1, IndexOf(orderClause, ",", 1) - 1))

\* parts = term.split(/\s+/); e0 is the end of parts[0] and b1 the start of
\* parts[1], past the end of term when there is no parts[1]
applyOrderBy(query, s) ==
  LET Descending(term, b1) ==
        /\ b1 <= Len(term)
        /\ toUpperCase(SubSeq(term, b1, SkipNonSpace(term, b1) - 1)) = kDESC
      Parts(term, e0) ==
        Order(SubSeq(term, 1, e0 - 1), ~Descending(term, SkipSpace(term, e0)))
      Term(term) == Parts(term, SkipNonSpace(term, 1))
      Apply(m) == IF ~m.ok THEN query
                  ELSE Append(query, Term(FirstTerm(trim(m.g1))))
  IN Apply(orderMatch(s))

applyGroupBy(query, s) == query

applyLimit(query, s) ==
  LET Apply(m) == IF ~m.ok THEN query ELSE Append(query, Limit(parseInt(m.g1)))
  IN Apply(limitMatch(s))

----------------------------------------------------------------------------
(* parseAndExecuteSQL and executeDynamicQuery.  An async function is cut   *)
(* at its await: the part before it ends in a throw, a return or a         *)
(* suspension on the builder; the part after it runs when the store        *)
(* answers.                                                                *)

Throw(message) == [kind |-> "throw", message |-> message]
Return(value) == [kind |-> "return", value |-> value]
Suspend(calls, locals) == [kind |-> "await", log |-> calls, frame |-> locals]

NoFrame == [mode |-> "none", grouped |-> FALSE, isDistinct |-> FALSE, query |-> <<>>]
NoResult == [none |-> TRUE]
NoAnswer == [ok |-> TRUE, message |-> "", data |-> <<>>, count |-> 0]

\* selectColumns.split(',').map(c => c.trim()).join(',')
RECURSIVE SplitTrimJoin(_)
SplitTrimJoin(s) ==
  LET Cut(c) == IF c > Len(s) THEN trim(s)
                ELSE trim(SubSeq(s, 1, c - 1)) \o <<",">>
                     \o SplitTrimJoin(SubSeq(s, c + 1, Len(s)))
  IN Cut(IndexOf(s, ",", 1))

\* the frame of the COUNT(*) branch at its await
CountFrame(calls, query, grouped) ==
  Suspend(calls, [mode |-> "count", grouped |-> grouped, isDistinct |-> FALSE,
                  query |-> query])

\* CountBranch awaiting the count builder before it builds the GROUP BY one
CountBranch_awaitsBoth(cleanSQL, upperSQL, tableName) ==
  LET Both(first, second) ==
        CountFrame(first \o <<Await>> \o second, second, TRUE)
      Rebuild(first, sm) ==
        IF sm.ok
        THEN Both(first,
                  applyWhereClause(
                    <<From(tableName), Select(trim(sm.g1), "none", FALSE)>>,
                    cleanSQL))
        ELSE CountFrame(first, first, TRUE)
      Built(first) ==
        IF includes(upperSQL, kGROUP_BY)
        THEN Rebuild(first, selectMatch(cleanSQL))
        ELSE CountFrame(first, first, FALSE)
  IN Built(applyWhereClause(
             <<From(tableName), Select(star, "exact", FALSE)>>, cleanSQL))

\* lines 411-430: the COUNT(*) branch up to its await.  first is the builder
\* of lines 409-416, second the one lines 424-426 replace it with
CountBranch(cleanSQL, upperSQL, tableName) ==
  LET Both(first, second) == CountFrame(first \o second, second, TRUE)
      Rebuild(first, sm) ==
        IF sm.ok
        THEN Both(first,
                  applyGroupBy(
                    applyWhereClause(
                      <<From(tableName), Select(trim(sm.g1), "none", FALSE)>>,
                      cleanSQL),
                    cleanSQL))
        ELSE CountFrame(first, first, TRUE)
      Built(first) ==
        IF includes(upperSQL, kGROUP_BY)
        THEN Rebuild(first, selectMatch(cleanSQL))
        ELSE CountFrame(first, first, FALSE)
  IN Built(applyWhereClause(
             <<From(tableName), Select(star, "exact", FALSE)>>, cleanSQL))

\* lines 441-458: selectColumns and isDistinct from the match of the select list
SelectList(sm) ==
  LET Columns(c) == IF c # star /\ ~includes(c, <<"(">>) THEN SplitTrimJoin(c)
                    ELSE c
      Listed(raw) ==
        IF startsWith(toUpperCase(raw), kDISTINCT_)
        THEN [isDistinct |-> TRUE,
              columns |-> Columns(trim(SubSeq(raw, 10, Len(raw))))]
        ELSE [isDistinct |-> FALSE, columns |-> Columns(raw)]
  IN IF sm.ok THEN Listed(trim(sm.g1))
     ELSE [isDistinct |-> FALSE, columns |-> star]

\* lines 440-471: the regular SELECT branch up to its await; the builder of
\* line 409 is replaced by the one of line 460
SelectBranch(cleanSQL, tableName) ==
  LET Built(list, query) ==
        Suspend(<<From(tableName)>> \o query,
                [mode |-> "select", grouped |-> FALSE,
                 isDistinct |-> list.isDistinct, query |-> query])
      Build(list) ==
        Built(list,
              applyLimit(
                applyOrderBy(
                  applyWhereClause(
                    <<From(tableName), Select(list.columns, "none", FALSE)>>,
                    cleanSQL),
                  cleanSQL),
                cleanSQL))
  IN Build(SelectList(selectMatch(cleanSQL)))

\* parseAndExecuteSQL falling back to the items table when no table is found
parseAndExecuteSQL_defaultTable(text) ==
  LET Table(fm) == IF fm.ok THEN fm.g1 ELSE <<"i","t","e","m","s">>
      Parsed(cleanSQL, upperSQL, tableName) ==
        IF includes(upperSQL, kCOUNT_STAR)
        THEN CountBranch(cleanSQL, upperSQL, tableName)
        ELSE SelectBranch(cleanSQL, tableName)
      Clean(cleanSQL) ==
        Parsed(cleanSQL, toUpperCase(cleanSQL), Table(fromMatch(cleanSQL)))
  IN Clean(trim(StripSemis(text)))

\* parseAndExecuteSQL, lines 393-471: up to its return, throw or await
parseAndExecuteSQL(text) ==
  LET Parsed(cleanSQL, upperSQL, fm) ==
        IF ~fm.ok
        THEN IF upperSQL = kSELECT_1
             THEN Return([data |-> <<[result |-> 1]>>, count |-> 1])
             ELSE Throw("Could not parse table name from query")
        ELSE IF includes(upperSQL, kCOUNT_STAR)
             THEN CountBranch(cleanSQL, upperSQL, fm.g1)
             ELSE SelectBranch(cleanSQL, fm.g1)
      Clean(cleanSQL) ==
        Parsed(cleanSQL, toUpperCase(cleanSQL), fromMatch(cleanSQL))
  IN Clean(trim(StripSemis(text)))

\* JSON.stringify(item) of a row: its keys, in the order the store writes
\* them, each with its value
stringify(item) ==
  << <<"category", item.category>>, <<"price", item.price>> >>

\* Dedup keeping the last row of each JSON text instead of the first
RECURSIVE Dedup_keepsLast(_)
Dedup_keepsLast(rows) ==
  IF rows = <<>> THEN <<>>
  ELSE LET tail == SubSeq(rows, 2, Len(rows))
       IN IF \E k \in 1..Len(tail) : stringify(tail[k]) = stringify(rows[1])
          THEN Dedup_keepsLast(tail)
          ELSE <<rows[1]>> \o Dedup_keepsLast(tail)

\* lines 476-486: rows whose JSON text did not occur earlier in the list
RECURSIVE Dedup(_)
Dedup(rows) ==
  IF rows = <<>> THEN <<>>
  ELSE LET init == SubSeq(rows, 1, Len(rows) - 1)
           last == rows[Len(rows)]
       IN IF \E k \in 1..Len(init) : stringify(init[k]) = stringify(last)
          THEN Dedup(init)
          ELSE Append(Dedup(init), last)

\* parseAndExecuteSQL after its await: lines 430-437 and 471-488
parseAndExecuteSQL_resume(locals, resp) ==
  IF ~resp.ok THEN Throw(resp.message)
  ELSE IF locals.mode = "count"
  THEN IF locals.grouped
       THEN Return([data |-> resp.data, count |-> Len(resp.data)])
       ELSE Return([data |-> <<[total |-> resp.count]>>, count |-> 1])
  ELSE LET finalData == IF locals.isDistinct /\ Len(resp.data) > 0
                        THEN Dedup(resp.data)
                        ELSE resp.data
       IN Return([data |-> finalData, count |-> Len(finalData)])

\* the additional safety check of lines 353-359, made after isSafeQuery and
\* before parseAndExecuteSQL: sqlQuery.toUpperCase().trim().startsWith('SELECT')
additionalSafetyCheck(sqlQuery) ==
  startsWith(trim(toUpperCase(sqlQuery)), kSELECT)

\* executeDynamicQuery without the isSafeQuery call
executeDynamicQuery_unchecked(sqlQuery) ==
  IF ~additionalSafetyCheck(sqlQuery)
  THEN Throw("Only SELECT queries are allowed")
  ELSE parseAndExecuteSQL(sqlQuery)

\* executeDynamicQuery, lines 345-365: up to the await inside parseAndExecuteSQL
executeDynamicQuery(sqlQuery) ==
  IF ~isSafeQuery(sqlQuery)
  THEN Throw("Query contains unsafe operations")
  ELSE IF ~additionalSafetyCheck(sqlQuery)
  THEN Throw("Only SELECT queries are allowed")
  ELSE parseAndExecuteSQL(sqlQuery)

\* lines 367-372
SuccessResult(value, sqlQuery) ==
  [success |-> TRUE,
   data |-> value.data,
   count |-> IF Len(value.data) # 0 THEN Len(value.data) ELSE value.count,
   query |-> sqlQuery]

\* the catch block, lines 374-381
CatchBlock(message, sqlQuery) ==
  [outcome |-> "returned",
   result |-> [success |-> FALSE, error |-> message, query |-> sqlQuery]]

\* Finish with the try block covering validation and parsing only
Finish_rethrows(r, sqlQuery) ==
  IF r.kind = "throw"
  THEN IF r.message \in {"Query contains unsafe operations",
                         "Only SELECT queries are allowed",
                         "Could not parse table name from query"}
       THEN CatchBlock(r.message, sqlQuery)
       ELSE [outcome |-> "thrown", result |-> NoResult]
  ELSE [outcome |-> "returned", result |-> SuccessResult(r.value, sqlQuery)]

\* how a finished run of the try block leaves executeDynamicQuery
Finish(r, sqlQuery) ==
  IF r.kind = "throw" THEN CatchBlock(r.message, sqlQuery)
  ELSE [outcome |-> "returned", result |-> SuccessResult(r.value, sqlQuery)]

----------------------------------------------------------------------------
(* The store.  It answers the awaited builder once, with an error or with  *)
(* rows (and the exact count when the select asked for one).               *)

MaxRows == 3

StoreErrors == {"column items.nope does not exist", "fetch failed"}
RowValues == [category : {"books", "toys"}, price : {10}]

RowLists == UNION {[1..n -> RowValues] : n \in 0..MaxRows}

WantsCount(query) == \E k \in 1..Len(query) :
                       query[k].op = "select" /\ query[k].count = "exact"

StoreResponses(query) ==
  {[ok |-> FALSE, message |-> m, data |-> <<>>, count |-> 0] : m \in StoreErrors}
  \cup
  UNION {{[ok |-> TRUE, message |-> "", data |-> rows, count |-> c] :
            c \in IF WantsCount(query) THEN {Len(rows), MaxRows + 1} ELSE {0}} :
         rows \in RowLists}

----------------------------------------------------------------------------
(* The statements executeDynamicQuery is called with: token lists joined   *)
(* by single spaces, with at most one separator replaced by a newline or   *)
(* by several spaces, and optional surrounding white space or ';'.         *)

MaxSpaces == 2

w_SELECT == <<"S","E","L","E","C","T">>
w_select == <<"s","e","l","e","c","t">>
w_SeLeCt == <<"S","e","L","e","C","t">>
w_FROM == <<"F","R","O","M">>
w_from == <<"f","r","o","m">>
w_WHERE == <<"W","H","E","R","E">>
w_LIMIT == <<"L","I","M","I","T">>
w_ORDER == <<"O","R","D","E","R">>
w_GROUP == <<"G","R","O","U","P">>
w_BY == <<"B","Y">>
w_DESC == <<"D","E","S","C">>
w_desc == <<"d","e","s","c">>
w_ASC == <<"A","S","C">>
w_DISTINCT == <<"D","I","S","T","I","N","C","T">>
w_BETWEEN == <<"B","E","T","W","E","E","N">>
w_AND == <<"A","N","D">>
w_ILIKE == <<"I","L","I","K","E">>
w_TABLE == <<"T","A","B","L","E">>
w_SET == <<"S","E","T">>
w_DROP == <<"D","R","O","P">>
w_DELETE == <<"D","E","L","E","T","E">>
w_UPDATE == <<"U","P","D","A","T","E">>
w_INSERT == <<"I","N","S","E","R","T">>
w_INTO == <<"I","N","T","O">>
w_VALUES == <<"V","A","L","U","E","S">>
w_count == <<"C","O","U","N","T","(","*",")">>
w_category_c == <<"c","a","t","e","g","o","r","y",",">>
w_name_c == <<"n","a","m","e",",">>
w_items == <<"i","t","e","m","s">>
w_items_sc == <<"i","t","e","m","s",";">>
w_users == <<"u","s","e","r","s">>
w_price == <<"p","r","i","c","e">>
w_rating == <<"r","a","t","i","n","g">>
w_category == <<"c","a","t","e","g","o","r","y">>
w_name == <<"n","a","m","e">>
w_created_date == <<"c","r","e","a","t","e","d","_","d","a","t","e">>
w_stock_limit == <<"s","t","o","c","k","_","l","i","m","i","t">>
w_1 == <<"1">>
w_10 == <<"1","0">>
w_50 == <<"5","0">>
w_100 == <<"1","0","0">>
w_4_0 == <<"4",".","0">>
w_books == <<"'","b","o","o","k","s","'">>
w_pat == <<"'","%","a","%","'">>
w_drop_q == <<"'","d","r","o","p","'">>
w_x == <<"x">>
w_paren == <<"(","1",")">>
w_between == <<"b","e","t","w","e","e","n">>
w_and == <<"a","n","d">>
w_limit == <<"l","i","m","i","t">>
w_JOIN == <<"J","O","I","N">>
w_ON == <<"O","N">>
w_items_c == <<"i","t","e","m","s",",">>
w_items_id == <<"i","t","e","m","s",".","i","d">>
w_users_item == <<"u","s","e","r","s",".","i","t","e","m">>
w_price_c == <<"p","r","i","c","e",",">>
w_DESC_c == <<"D","E","S","C",",">>
w_Desc == <<"D","e","s","c">>
w_0 == <<"0">>
w_5 == <<"5">>

Tables == {w_items, w_users}
Columns == {w_price, w_stock_limit}
Operators == {opEq, opLt, opGt, opLte, opGte}
Numbers == {w_50, w_4_0}
LimitClauses == {<<>>, <<w_LIMIT, w_100>>}

\* SELECT * FROM t WHERE c op n [LIMIT m]
ComparisonStatements ==
  {<<w_SELECT, star, w_FROM, t, w_WHERE, c, op, n>> \o lim :
     t \in Tables, c \in Columns, op \in Operators, n \in Numbers,
     lim \in LimitClauses}

WhereClauses ==
  {<<>>,
   <<w_WHERE, w_price, opLt, w_50>>,
   <<w_WHERE, w_category, opEq, w_books>>,
   <<w_WHERE, w_price, w_BETWEEN, w_10, w_AND, w_50>>,
   <<w_WHERE, w_name, w_ILIKE, w_pat>>,
   <<w_WHERE, w_price, opGte, w_10, w_AND, w_name, w_ILIKE, w_pat>>}
OrderClauses ==
  {<<>>, <<w_ORDER, w_BY, w_price>>, <<w_ORDER, w_BY, w_price, w_DESC>>}

\* SELECT [DISTINCT] cols FROM items [WHERE ...] [ORDER BY c [DESC]] [LIMIT n]
RowStatements ==
  {<<w_SELECT>> \o proj \o <<w_FROM, w_items>> \o wh \o ord \o lim :
     proj \in {<<star>>, <<w_DISTINCT, w_category>>, <<w_name_c, w_price>>},
     wh \in WhereClauses, ord \in OrderClauses, lim \in LimitClauses}

\* SELECT [c,] COUNT(*) FROM items [WHERE ...] [GROUP BY c] [LIMIT n]
CountStatements ==
  {<<w_SELECT>> \o proj \o <<w_FROM, w_items>> \o wh \o grp \o lim :
     proj \in {<<w_count>>, <<w_category_c, w_count>>},
     wh \in WhereClauses,
     grp \in {<<>>, <<w_GROUP, w_BY, w_category>>},
     lim \in LimitClauses}

\* conditions of the supported kinds
SupportedConditions ==
  {<<w_price, opLt, w_50>>,
   <<w_price, opEq, w_10>>,
   <<w_rating, opGte, w_4_0>>,
   <<w_category, opEq, w_books>>,
   <<w_name, w_ILIKE, w_pat>>,
   <<w_price, w_BETWEEN, w_10, w_AND, w_50>>,
   <<w_rating, w_BETWEEN, w_1, w_AND, w_4_0>>}

\* SELECT * FROM items WHERE c1 AND c2
ConjunctionOf(c1, c2) ==
  <<w_SELECT, star, w_FROM, w_items, w_WHERE>> \o c1 \o <<w_AND>> \o c2

ConjunctionStatements ==
  {ConjunctionOf(c1, c2) : c1 \in SupportedConditions, c2 \in SupportedConditions}

\* SELECT * FROM t WHERE c BETWEEN lo AND hi [LIMIT m]
BetweenStatements ==
  {<<w_SELECT, star, w_FROM, w_items, w_WHERE, c, b, lo, a, w_50>> \o lim :
     c \in {w_price, w_rating}, b \in {w_BETWEEN, w_between},
     lo \in {w_10, w_4_0}, a \in {w_AND, w_and}, lim \in LimitClauses}

\* statements that name two tables
MultiTableStatements ==
  {<<w_SELECT, star, w_FROM, w_items, w_JOIN, w_users>>,
   <<w_SELECT, star, w_FROM, w_items, w_JOIN, w_users, w_ON, w_items_id, opEq,
     w_users_item>>,
   <<w_SELECT, star, w_FROM, w_items_c, w_users>>}

\* SELECT * FROM items [LIMIT n]
LimitStatements ==
  {<<w_SELECT, star, w_FROM, w_items>> \o lim :
     lim \in {<<>>, <<w_LIMIT, w_0>>, <<w_LIMIT, w_1>>, <<w_limit, w_5>>,
              <<w_LIMIT, w_10>>}}

\* the ordering terms: <<column, direction>> and the tokens that write them
OrderTerms ==
  {[column |-> c, descending |-> d[1], tokens |-> <<c>> \o d[2]] :
     c \in {w_price, w_stock_limit},
     d \in {<<FALSE, <<>> >>, <<FALSE, <<w_ASC>> >>, <<TRUE, <<w_DESC>> >>,
            <<TRUE, <<w_desc>> >>, <<TRUE, <<w_Desc>> >>}}
  \cup {[column |-> w_price, descending |-> FALSE, tokens |-> <<w_price_c, w_name, w_DESC>>],
        [column |-> w_price, descending |-> TRUE, tokens |-> <<w_price, w_DESC_c, w_name>>]}

\* SELECT * FROM items ORDER BY term [LIMIT n]
OrderStatementOf(term, lim) ==
  <<w_SELECT, star, w_FROM, w_items, w_ORDER, w_BY>> \o term.tokens \o lim

OrderStatements ==
  {OrderStatementOf(term, lim) : term \in OrderTerms, lim \in LimitClauses}

w_a_eq_1 == <<"'","a","=","1","'">>
w_price_lt_5 == <<"'","p","r","i","c","e","<","5","'">>

\* SELECT * FROM items WHERE name = 'literal', the literal with or without a
\* comparison written inside it
QuotedLiteralStatements ==
  {<<w_SELECT, star, w_FROM, w_items, w_WHERE, w_name, opEq, lit>> :
     lit \in {w_books, w_a_eq_1, w_price_lt_5}}

w_2 == <<"2">>

\* SELECT DISTINCT category FROM items LIMIT n
DistinctLimitStatements ==
  {<<w_SELECT, w_DISTINCT, w_category, w_FROM, w_items, w_LIMIT, n>> :
     n \in {w_1, w_2}}

BlockedWords ==
  {dangerousKeywords[k] : k \in 1..Len(dangerousKeywords)} \cup {kINTO, kVALUES}

\* an upper-case word written in lower case
LowerCase(word) ==
  [i \in 1..Len(word) |-> CHOOSE c \in DOMAIN UpperTable : UpperTable[c] = word[i]]

\* statements the validator and the table extraction decide
OtherStatements ==
  {<<w_DROP, w_TABLE, w_items>>,
   <<w_DELETE, w_FROM, w_items>>,
   <<w_UPDATE, w_items, w_SET, w_price, opEq, w_1>>,
   <<w_select, star, w_from, w_items>>,
   <<w_SeLeCt, star, w_from, w_items>>,
   <<w_SELECT, w_1>>,
   <<w_select, w_1>>,
   <<w_SELECT, w_paren>>,
   <<w_SELECT, star, w_FROM>>,
   <<w_SELECT, star, w_FROM, w_paren>>,
   <<w_SELECT, w_created_date, w_FROM, w_items>>,
   <<w_SELECT, star, w_FROM, w_items, w_WHERE, w_name, opEq, w_drop_q>>,
   <<w_SELECT, star, w_FROM, w_items_sc, w_SELECT, star, w_FROM, w_users>>,
   <<w_SELECT, star, w_FROM, w_items_sc, w_DROP, w_TABLE, w_items>>}
  \cup {<<w_SELECT, k, w_FROM, w_items>> : k \in BlockedWords}
  \cup {<<w_SELECT, toUpperCase(w_x) \o <<"_">> \o k, w_FROM, w_items>> :
          k \in BlockedWords}
  \cup {<<w_select, LowerCase(k), w_from, w_items>> : k \in BlockedWords}

Statements ==
  ComparisonStatements \cup RowStatements \cup CountStatements
  \cup OtherStatements \cup ConjunctionStatements \cup BetweenStatements
  \cup MultiTableStatements \cup LimitStatements \cup OrderStatements
  \cup QuotedLiteralStatements \cup DistinctLimitStatements

\* statements also written over several lines
MultiLineStatements ==
  {<<w_SELECT>> \o proj \o <<w_FROM, w_items>> \o wh \o ord \o <<w_LIMIT, w_100>> :
     proj \in {<<star>>, <<w_DISTINCT, w_category>>},
     wh \in {<<>>,
             <<w_WHERE, w_price, opLt, w_50>>,
             <<w_WHERE, w_price, w_BETWEEN, w_10, w_AND, w_50>>},
     ord \in {<<>>, <<w_ORDER, w_BY, w_price, w_DESC>>}}
  \cup {<<w_SELECT, w_category_c, w_count, w_FROM, w_items,
          w_GROUP, w_BY, w_category>>}

\* statements also written with white space or ';' around them
DecoratedStatements ==
  OtherStatements \cup MultiLineStatements
  \cup {OrderStatementOf(term, <<>>) : term \in OrderTerms}

Spaces(k) == [i \in 1..k |-> " "]
Separators == {<<"\n">>} \cup {Spaces(k) : k \in 2..MaxSpaces}

\* the tokens joined by one space, the separator after token p replaced by sep
RECURSIVE Join(_, _, _, _)
Join(ts, k, p, sep) ==
  IF k > Len(ts) THEN <<>>
  ELSE IF k = Len(ts) THEN ts[k]
  ELSE ts[k] \o (IF k = p THEN sep ELSE <<" ">>) \o Join(ts, k + 1, p, sep)

SingleLine(ts) == Join(ts, 1, 0, <<>>)

\* white space and semicolons around a single-line statement
Decorations ==
  {<< <<>>, <<";">> >>, << <<>>, <<";", "\n">> >>, << <<"\n", " ">>, <<>> >>}

\* the arguments of executeDynamicQuery: <<tokens, text>>
Inputs ==
  {<<ts, SingleLine(ts)>> : ts \in Statements}
  \cup {<<ts, d[1] \o SingleLine(ts) \o d[2]>> :
          ts \in DecoratedStatements, d \in Decorations}
  \cup UNION {{<<ts, Join(ts, 1, p, sep)>> :
                 p \in 1..(Len(ts) - 1), sep \in Separators} :
              ts \in MultiLineStatements}

----------------------------------------------------------------------------
(* executeQuery and the helper methods of DatabaseService that call it.    *)
(* A helper builds a statement with $k placeholders and the list of its    *)
(* parameters; executeQuery maps the statement on the store client.        *)

ParamStr(s) == [t |-> "string", s |-> s]
ParamNum(n) == [t |-> "number", n |-> n]
ParamBool(b) == [t |-> "boolean", b |-> b]

w_is_active == <<"i","s","_","a","c","t","i","v","e">>

\* `$${k}`
Placeholder(k) == <<"$", Digits[k + 1]>>

\* the text of a template literal and the parameter list, as a helper hands
\* them to executeQuery
HelperArgs(query, params) == [query |-> query, params |-> params]

\* ` AND is_active = true` unless includeInactive
ActiveOnly(includeInactive) ==
  IF includeInactive THEN <<>> ELSE <<" ","A","N","D"," ","i","s","_","a","c",
                                    "t","i","v","e"," ","="," ","t","r","u",
                                    "e">>

\* params.findIndex((_, i) => cleanQuery.includes(`$${i + 1}`)) + 1: the place
\* of the first parameter whose placeholder occurs in the statement, 0 for none
findIndex(params, cleanQuery) ==
  IF \E i \in 1..Len(params) : includes(cleanQuery, Placeholder(i))
  THEN CHOOSE i \in 1..Len(params) :
         /\ includes(cleanQuery, Placeholder(i))
         /\ \A k \in 1..(i - 1) : ~includes(cleanQuery, Placeholder(k))
  ELSE 0


\* s.indexOf(lit) + 1
IndexOfLit(s, lit) ==
  IF includes(s, lit)
  THEN CHOOSE i \in 1..Len(s) :
         LitAt(s, i, lit) /\ \A k \in 1..(i - 1) : ~LitAt(s, k, lit)
  ELSE 0

\* the conditions of the regular SELECT branch, lines 229-258, in the order
\* of the source: the text looked for in upperQuery and the filter it adds
SelectConditions ==
  <<[text |-> <<"C","A","T","E","G","O","R","Y"," ","=">>, call |-> "eq", column |-> w_category],
    [text |-> <<"P","R","I","C","E"," ",">","=">>, call |-> "gte", column |-> w_price],
    [text |-> <<"P","R","I","C","E"," ","<","=">>, call |-> "lte", column |-> w_price],
    [text |-> <<"R","A","T","I","N","G"," ",">","=">>, call |-> "gte", column |-> w_rating],
    [text |-> <<"N","A","M","E"," ","I","L","I","K","E">>, call |-> "ilike", column |-> w_name]>>

\* the conditions of the COUNT(*) branch, lines 201-212, looked for in the
\* text after WHERE as it was written
CountConditions ==
  <<[text |-> <<"C","A","T","E","G","O","R","Y"," ","=">>, call |-> "eq", column |-> w_category],
    [text |-> <<"I","S","_","A","C","T","I","V","E"," ","=">>, call |-> "eq", column |-> w_is_active]>>

\* the orderings of lines 266-278, the first that occurs in upperQuery wins
Orderings ==
  <<[text |-> <<"P","R","I","C","E"," ","A","S","C">>, column |-> w_price, ascending |-> TRUE],
    [text |-> <<"P","R","I","C","E"," ","D","E","S","C">>, column |-> w_price, ascending |-> FALSE],
    [text |-> <<"R","A","T","I","N","G"," ","D","E","S","C">>, column |-> w_rating, ascending |-> FALSE],
    [text |-> <<"C","R","E","A","T","E","D","_","D","A","T","E"," ","D","E",
                "S","C">>, column |-> w_created_date, ascending |-> FALSE],
    [text |-> <<"C","R","E","A","T","E","D","_","D","A","T","E"," ","A","S",
                "C">>, column |-> w_created_date, ascending |-> TRUE],
    [text |-> <<"N","A","M","E"," ","A","S","C">>, column |-> w_name, ascending |-> TRUE]>>

\* the filters of the conditions k.. of table whose text occurs in where,
\* each bound to the parameter findIndex gives
RECURSIVE BindConditions(_, _, _, _, _, _)
BindConditions(calls, table, where, params, index, k) ==
  IF k > Len(table) THEN calls
  ELSE BindConditions(
         IF includes(where, table[k].text) /\ index # 0
         THEN Append(calls, Filter(table[k].call, table[k].column, params[index]))
         ELSE calls,
         table, where, params, index, k + 1)

RECURSIVE FirstOrdering(_, _, _)
FirstOrdering(calls, upperQuery, k) ==
  IF k > Len(Orderings) THEN calls
  ELSE IF includes(upperQuery, Orderings[k].text)
  THEN Append(calls, Order(Orderings[k].column, Orderings[k].ascending))
  ELSE FirstOrdering(calls, upperQuery, k + 1)

Not(column, operator, value) ==
  [op |-> "not", column |-> column, operator |-> operator, value |-> value]

\* lines 196-223: the COUNT(*) branch up to its await
CountQuery(cleanQuery, upperQuery, params) ==
  LET Where(calls, at) ==
        BindConditions(calls, CountConditions,
                       SubSeq(cleanQuery, at + 5, Len(cleanQuery)),
                       params, findIndex(params, cleanQuery), 1)
      Built(calls) ==
        IF includes(upperQuery, kWHERE)
        THEN Where(calls, IndexOfLit(toUpperCase(cleanQuery), kWHERE))
        ELSE calls
  IN Built(<<From(w_items), Select(star, "exact", TRUE)>>)

\* lines 225-287: the regular SELECT branch up to its await
SelectQuery(cleanQuery, upperQuery, params) ==
  LET Limited(calls, index) ==
        IF includes(upperQuery, kLIMIT) /\ index # 0
        THEN Append(calls, Limit(params[index]))
        ELSE calls
      Ordered(calls) ==
        IF includes(upperQuery, kORDER_BY)
        THEN FirstOrdering(calls, upperQuery, 1)
        ELSE calls
      Active(calls) ==
        IF includes(upperQuery, <<"I","S","_","A","C","T","I","V","E"," ","="," ",
                              "T","R","U","E">>)
        THEN Append(calls, Filter("eq", w_is_active, ParamBool(TRUE)))
        ELSE calls
      Where(calls) ==
        IF includes(upperQuery, kWHERE)
        THEN Active(BindConditions(calls, SelectConditions, upperQuery, params,
                                   findIndex(params, cleanQuery), 1))
        ELSE calls
  IN Limited(Ordered(Where(<<From(w_items), Select(star, "none", FALSE)>>)),
             findIndex(params, cleanQuery))

\* executeQuery, lines 178-300: up to its throw or its await
executeQuery(query, params) ==
  LET Branch(name, calls) == Suspend(calls, [branch |-> name])
      Parsed(cleanQuery, upperQuery) ==
        IF includes(upperQuery, kSELECT) /\ includes(upperQuery, <<"F","R","O","M"," ","I","T","E","M",
                                          "S">>)
        THEN IF includes(upperQuery, kCOUNT_STAR)
             THEN Branch("count", CountQuery(cleanQuery, upperQuery, params))
             ELSE Branch("select", SelectQuery(cleanQuery, upperQuery, params))
        ELSE IF includes(upperQuery, <<"S","E","L","E","C","T"," ","D","I","S","T",
                                "I","N","C","T"," ","C","A","T","E","G","O",
                                "R","Y">>)
        THEN Branch("distinct",
                    <<From(w_items), Select(w_category, "none", FALSE),
                      Not(w_category, "is", "null")>>)
        ELSE Throw("Unsupported query type")
      Clean(cleanQuery) == Parsed(cleanQuery, toUpperCase(cleanQuery))
  IN IF ~isSafeQuery(query)
     THEN Throw("Query contains unsafe operations")
     ELSE Clean(trim(CollapseSpaces(query)))

\* the categories in the order Array.prototype.sort gives them
SortedCategories == <<"books", "toys">>

\* [...new Set(data.map(item => item.category))].sort()
uniqueCategories(data) ==
  SelectSeq(SortedCategories,
            LAMBDA c : \E i \in 1..Len(data) : data[i].category = c)

\* executeQuery after its await returning the store's count as the count of
\* a COUNT(*) result
executeQuery_resume_storeCount(branch, resp) ==
  IF ~resp.ok THEN Throw(resp.message)
  ELSE IF branch = "count"
  THEN Return([data |-> <<[total |-> resp.count]>>, count |-> resp.count])
  ELSE IF branch = "select"
  THEN Return([data |-> resp.data, count |-> Len(resp.data)])
  ELSE Return([data |-> [k \in 1..Len(uniqueCategories(resp.data)) |->
                           [category |-> uniqueCategories(resp.data)[k]]],
               count |-> Len(uniqueCategories(resp.data))])

\* executeQuery after its await: lines 214-221, 289-295 and 298-309
executeQuery_resume(branch, resp) ==
  IF ~resp.ok THEN Throw(resp.message)
  ELSE IF branch = "count"
  THEN Return([data |-> <<[total |-> resp.count]>>, count |-> 1])
  ELSE IF branch = "select"
  THEN Return([data |-> resp.data, count |-> Len(resp.data)])
  ELSE Return([data |-> [k \in 1..Len(uniqueCategories(resp.data)) |->
                           [category |-> uniqueCategories(resp.data)[k]]],
               count |-> Len(uniqueCategories(resp.data))])

\* how executeQuery returns: lines 315-331
HelperResult(r, query, params) ==
  IF r.kind = "throw"
  THEN [success |-> FALSE, error |-> r.message, query |-> query,
        params |-> params]
  ELSE [success |-> TRUE, data |-> r.value.data, count |-> r.value.count,
        query |-> query, params |-> params]

\* isSafeQuery of src/services/geminiService.js, which looks for the blocked
\* keywords anywhere in the upper-cased text
legacy_isSafeQuery(text) ==
  LET Safe(upperSql) ==
        /\ startsWith(upperSql, kSELECT)
        /\ \A k \in 1..Len(dangerousKeywords) :
             ~includes(upperSql, dangerousKeywords[k])
        /\ includes(upperSql, <<"F","R","O","M"," ","I","T","E","M",
                                          "S">>) \/ includes(upperSql, <<"J","O","I","N"," ","I","T","E","M",
                                          "S">>)
        /\ ~includes(upperSql, kINTO)
        /\ ~includes(upperSql, kVALUES)
  IN Safe(toUpperCase(trim(CollapseSpaces(text))))

\* the store's answers to a helper's query: with head true no rows come back
HelperResponses(calls) ==
  {resp \in StoreResponses(calls) :
     (\E k \in 1..Len(calls) : calls[k].op = "select" /\ calls[k].head)
       => resp.data = <<>>}

IdleHelper ==
  [pc |-> "idle", helper |-> "", query |-> <<>>, params |-> <<>>,
   log |-> <<>>, branch |-> "", answer |-> NoAnswer, result |-> NoResult]

----------------------------------------------------------------------------
(* The OTP service (services/twilioService.js): a Map from phone number to  *)
(* the code sent to it and the time it expires.  A Map is a function whose  *)
(* domain is the set of its keys.                                           *)

\* otpStore.set(key, value) and otpStore.delete(key)
MapSet(map, key, value) ==
  [k \in DOMAIN map \cup {key} |-> IF k = key THEN value ELSE map[k]]
MapDelete(map, key) == [k \in DOMAIN map \ {key} |-> map[k]]

\* storeOTP(phoneNumber, otp, expirationMinutes) called at time t
storeOTP(store, phoneNumber, otp, expirationMinutes, t) ==
  MapSet(store, phoneNumber,
         [otp |-> otp, expiresAt |-> t + expirationMinutes * 60 * 1000])

OtpResult(store, success, message) ==
  [store |-> store, success |-> success, message |-> message]

\* verifyOTP that leaves a verified entry in the Map
verifyOTP_keepsEntry(store, phoneNumber, otp, t) ==
  IF phoneNumber \notin DOMAIN store
  THEN OtpResult(store, FALSE, "No OTP found for this phone number")
  ELSE IF t > store[phoneNumber].expiresAt
  THEN OtpResult(MapDelete(store, phoneNumber), FALSE, "OTP has expired")
  ELSE IF store[phoneNumber].otp # otp
  THEN OtpResult(store, FALSE, "Invalid OTP")
  ELSE OtpResult(store, TRUE, "OTP verified successfully")

\* verifyOTP without the test of the expiry time
verifyOTP_neverExpires(store, phoneNumber, otp, t) ==
  IF phoneNumber \notin DOMAIN store
  THEN OtpResult(store, FALSE, "No OTP found for this phone number")
  ELSE IF store[phoneNumber].otp # otp
  THEN OtpResult(store, FALSE, "Invalid OTP")
  ELSE OtpResult(MapDelete(store, phoneNumber), TRUE, "OTP verified successfully")

\* verifyOTP(phoneNumber, otp) called at time t: the Map it leaves and the
\* object it returns
verifyOTP(store, phoneNumber, otp, t) ==
  IF phoneNumber \notin DOMAIN store
  THEN OtpResult(store, FALSE, "No OTP found for this phone number")
  ELSE IF t > store[phoneNumber].expiresAt
  THEN OtpResult(MapDelete(store, phoneNumber), FALSE, "OTP has expired")
  ELSE IF store[phoneNumber].otp # otp
  THEN OtpResult(store, FALSE, "Invalid OTP")
  ELSE OtpResult(MapDelete(store, phoneNumber), TRUE, "OTP verified successfully")

\* cleanupExpiredOTPs() called at time t
cleanupExpiredOTPs(store, t) ==
  [k \in {p \in DOMAIN store : ~(t > store[p].expiresAt)} |-> store[k]]

EmptyMap == [k \in {} |-> 0]

----------------------------------------------------------------------------
(* generateSQLQuery (backend/src/services/geminiService.js): the cache of   *)
(* generated statements and the retry loop around the model.  The function  *)
(* is cut at its awaits: the call of the model and the sleep before a       *)
(* retry.                                                                   *)

CACHE_TTL == 3600000

\* the schema argument: null (its default) or the array of table schemas
NoSchema == [null |-> TRUE, tables |-> <<>>]
SchemaOf(tables) == [null |-> FALSE, tables |-> tables]
NoEntry == [undefined |-> TRUE]

\* JSON.stringify of a string without characters to escape, and of an array
\* of such strings
JsonString(s) == <<"\"">> \o s \o <<"\"">>
RECURSIVE JsonItems(_, _)
JsonItems(names, i) ==
  IF i > Len(names) THEN <<>>
  ELSE (IF i > 1 THEN <<",">> ELSE <<>>) \o JsonString(names[i])
         \o JsonItems(names, i + 1)
JsonArray(names) == <<"[">> \o JsonItems(names, 1) \o <<"]">>

\* the template userQuestion + '_' +
\* JSON.stringify(schema ? schema.map(s => s.table) : 'default')
cacheKey(userQuestion, schema) ==
  userQuestion \o <<"_">> \o
    (IF schema = NoSchema
     THEN JsonString(<<"d","e","f","a","u","l","t">>)
     ELSE JsonArray([i \in 1..Len(schema.tables) |-> schema.tables[i].table]))

\* queryCache.get(cacheKey)
MapGet(map, key) == IF key \in DOMAIN map THEN map[key] ELSE NoEntry

\* the test of the cache that also serves an entry of age CACHE_TTL
cacheHit_inclusive(cached, t) ==
  cached # NoEntry /\ t - cached.timestamp <= CACHE_TTL

\* cached && Date.now() - cached.timestamp < CACHE_TTL
cacheHit(cached, t) ==
  cached # NoEntry /\ t - cached.timestamp < CACHE_TTL

\* the test of the caught error that retries after every error
isRateLimit_anyError(err) == TRUE

\* err.message && err.message.includes('429')
isRateLimit(err) ==
  /\ "message" \in DOMAIN err
  /\ err.message # <<>>
  /\ includes(err.message, <<"4","2","9">>)

\* the grave accent of the code fences, a character that a string of this
\* notation cannot hold
Grave == "grave"

\* s.replace(/lit\n?/g, '')
RECURSIVE RemoveAll(_, _, _)
RemoveAll(s, lit, i) ==
  IF i > Len(s) THEN <<>>
  ELSE IF LitAt(s, i, lit)
  THEN RemoveAll(s, lit,
         IF i + Len(lit) <= Len(s) /\ s[i + Len(lit)] = "\n"
         THEN i + Len(lit) + 1 ELSE i + Len(lit))
  ELSE <<s[i]>> \o RemoveAll(s, lit, i + 1)

\* the clean-up of the model's text: trim, the code fences removed, trim,
\* the trailing semicolons replaced by one
cleanSqlQuery(text) ==
  StripSemis(trim(RemoveAll(RemoveAll(trim(text),
                                      <<Grave, Grave, Grave, "s","q","l">>, 1),
                            <<Grave, Grave, Grave>>, 1)))
    \o <<";">>

\* the chat requests; each calls generateSQLQuery once
Requests == {"r1", "r2"}

kFailedToGenerate == "Failed to generate SQL query from question"

\* the locals of one call of generateSQLQuery.  delay is kept in quarters of
\* a millisecond, which makes every delay *= 1.5 of one call exact.
GemIdle ==
  [pc |-> "idle", userQuestion |-> <<>>, schema |-> NoSchema, key |-> <<>>,
   cached |-> NoEntry, retries |-> 0, delay |-> 0, calls |-> 0,
   err |-> NoEntry, out |-> <<>>]

\* generateSQLQuery(userQuestion, schema) called at time t, up to its return
\* from the cache or to its first await of model.generateContent
generateSQLQuery(cache, userQuestion, schema, t) ==
  IF cacheHit(MapGet(cache, cacheKey(userQuestion, schema)), t)
  THEN [GemIdle EXCEPT !.pc = "returned", !.userQuestion = userQuestion,
          !.schema = schema, !.key = cacheKey(userQuestion, schema),
          !.cached = MapGet(cache, cacheKey(userQuestion, schema)),
          !.out = cache[cacheKey(userQuestion, schema)].query]
  ELSE [GemIdle EXCEPT !.pc = "generating", !.userQuestion = userQuestion,
          !.schema = schema, !.key = cacheKey(userQuestion, schema),
          !.cached = MapGet(cache, cacheKey(userQuestion, schema)),
          !.retries = 5, !.delay = 4 * 5000, !.calls = 1]

GemStep(g, cache) == [g |-> g, cache |-> cache]

\* the await of model.generateContent ends at time t, with a response or
\* with a thrown error
generateSQLQuery_resume(g, cache, resp, t) ==
  IF resp.ok
  THEN GemStep([g EXCEPT !.pc = "returned", !.out = cleanSqlQuery(resp.text)],
               MapSet(cache, g.key,
                      [query |-> cleanSqlQuery(resp.text), timestamp |-> t]))
  ELSE IF isRateLimit(resp.err)
  THEN GemStep([g EXCEPT !.pc = "sleeping", !.err = resp.err], cache)
  ELSE GemStep([g EXCEPT !.pc = "threw", !.out = kFailedToGenerate], cache)

\* the sleep ends: delay *= 1.5; retries--; the catch block and its err are
\* left; then the next turn of the loop, or the throw after it
generateSQLQuery_wake(g) ==
  IF g.retries - 1 > 0
  THEN [g EXCEPT !.pc = "generating", !.delay = (g.delay * 3) \div 2,
                 !.retries = g.retries - 1, !.calls = g.calls + 1,
                 !.err = NoEntry]
  ELSE [g EXCEPT !.pc = "threw", !.delay = (g.delay * 3) \div 2,
                 !.retries = g.retries - 1, !.err = NoEntry,
                 !.out = kFailedToGenerate]

----------------------------------------------------------------------------
(* The state machine.                                                      *)

Init ==
  /\ queryCache = EmptyMap
  /\ gem = [r \in Requests |-> GemIdle]
  /\ hq = IdleHelper
  /\ otpStore = EmptyMap
  /\ now = 0
  /\ otpCalls = <<>>
  /\ pc = "idle"
  /\ sql = <<>>
  /\ toks = <<>>
  /\ log = <<>>
  /\ frame = NoFrame
  /\ answer = NoAnswer
  /\ outcome = "none"
  /\ result = NoResult

\* a call of executeDynamicQuery(text), run to its return or to its await
Call(ts, text) ==
  /\ sql' = text
  /\ toks' = ts
  /\ answer' = NoAnswer
  /\ UNCHANGED notDb
  /\ \E r \in {executeDynamicQuery(text)} :
        IF r.kind = "await"
        THEN /\ pc' = "awaiting"
             /\ log' = Append(r.log, Await)
             /\ frame' = r.frame
             /\ outcome' = "none"
             /\ result' = NoResult
        ELSE /\ pc' = "done"
             /\ log' = <<>>
             /\ frame' = NoFrame
             /\ outcome' = Finish(r, text).outcome
             /\ result' = Finish(r, text).result

ExecuteDynamicQuery ==
  /\ pc = "idle"
  /\ hq.pc = "idle"
  /\ \E in \in Inputs : Call(in[1], in[2])

\* the store answers the awaited builder; executeDynamicQuery runs to its end
StoreAnswers ==
  /\ pc = "awaiting"
  /\ \E resp \in StoreResponses(frame.query) :
       \E r \in {parseAndExecuteSQL_resume(frame, resp)} :
          /\ answer' = resp
          /\ outcome' = Finish(r, sql).outcome
          /\ result' = Finish(r, sql).result
  /\ pc' = "done"
  /\ UNCHANGED <<sql, toks, log, frame>>
  /\ UNCHANGED notDb

\* the caller (the chat controller) has taken the result; the call is over
CallerContinues ==
  /\ pc = "done"
  /\ pc' = "idle"
  /\ sql' = <<>>
  /\ toks' = <<>>
  /\ log' = <<>>
  /\ frame' = NoFrame
  /\ answer' = NoAnswer
  /\ outcome' = "none"
  /\ result' = NoResult
  /\ UNCHANGED notDb

Next == ExecuteDynamicQuery \/ StoreAnswers \/ CallerContinues

Spec == Init /\ [][Next]_vars

----------------------------------------------------------------------------
(* The OTP endpoints: sendOTP stores a fresh code for 5 minutes, verifyOTPCode *)
(* verifies one, a timer runs cleanupExpiredOTPs, and time passes.           *)

MaxCalls == 3
MaxJitter == 1

Phones == {"+15550001", "+15550002"}
Codes == {"1234", "5678"}
\* the times at which something happens: time 0 and 5 minutes later, and a
\* few milliseconds after each
TimePoints ==
  {k * (5 * 60 * 1000) + j : k \in {0, 1}, j \in 0..MaxJitter}

OtpCall(op, phoneNumber, otp, success, message) ==
  [op |-> op, phone |-> phoneNumber, otp |-> otp, at |-> now,
   success |-> success, message |-> message]

\* sendOTP after the code was delivered: storeOTP(phone, otp, 5)
StoreOTP ==
  /\ Len(otpCalls) < MaxCalls
  /\ \E p \in Phones, c \in Codes :
       /\ otpStore' = storeOTP(otpStore, p, c, 5, now)
       /\ otpCalls' = Append(otpCalls, OtpCall("store", p, c, TRUE, ""))
  /\ UNCHANGED now
  /\ UNCHANGED notOtp

\* verifyOTPCode with a well-formed phone number and code: verifyOTP(phone, otp)
VerifyOTP ==
  /\ Len(otpCalls) < MaxCalls
  /\ \E p \in Phones, c \in Codes :
       \E r \in {verifyOTP(otpStore, p, c, now)} :
         /\ otpStore' = r.store
         /\ otpCalls' = Append(otpCalls, OtpCall("verify", p, c, r.success, r.message))
  /\ UNCHANGED now
  /\ UNCHANGED notOtp

\* the interval timer: cleanupExpiredOTPs()
CleanupExpiredOTPs ==
  /\ Len(otpCalls) < MaxCalls
  /\ otpStore' = cleanupExpiredOTPs(otpStore, now)
  /\ otpCalls' = Append(otpCalls, OtpCall("cleanup", "", "", TRUE, ""))
  /\ UNCHANGED now
  /\ UNCHANGED notOtp

Tick ==
  /\ \E t \in TimePoints : t > now /\ now' = t
  /\ UNCHANGED <<otpStore, otpCalls>>
  /\ UNCHANGED notOtp

NextOTP == StoreOTP \/ VerifyOTP \/ CleanupExpiredOTPs \/ Tick

SpecOTP == Init /\ [][NextOTP]_vars

----------------------------------------------------------------------------
(* The helper methods.  Each is one call of executeQuery with the statement *)
(* and the parameters the helper builds; the caller makes one call at a     *)
(* time, on executeDynamicQuery or on a helper.                             *)

Categories == {"books", "toys"}
HelperLimits == {5, 20}
Sortings == {<<w_name, w_ASC>>, <<w_price, w_DESC>>, <<w_created_date, w_DESC>>}

\* return this.executeQuery(query, params), run to its return or to its await
HelperCall(name, args) ==
  /\ pc = "idle"
  /\ hq.pc = "idle"
  /\ \E r \in {executeQuery(args.query, args.params)} :
       hq' = IF r.kind = "await"
             THEN [pc |-> "awaiting", helper |-> name, query |-> args.query,
                   params |-> args.params, log |-> Append(r.log, Await),
                   branch |-> r.frame.branch, answer |-> NoAnswer,
                   result |-> NoResult]
             ELSE [pc |-> "done", helper |-> name, query |-> args.query,
                   params |-> args.params, log |-> <<>>, branch |-> "",
                   answer |-> NoAnswer,
                   result |-> HelperResult(r, args.query, args.params)]
  /\ UNCHANGED notHelper

getItemsByCategory ==
  \E category \in Categories, limit \in HelperLimits, sort \in Sortings,
     includeInactive \in BOOLEAN :
    HelperCall("getItemsByCategory",
      HelperArgs(
        <<"\n"," "," "," "," "," "," ","S","E","L","E","C","T"," ","i","d",",",
          " ","n","a","m","e",","," ","d","e","s","c","r","i","p","t","i","o",
          "n",","," ","p","r","i","c","e",","," ","c","a","t","e","g","o","r",
          "y",","," ","r","a","t","i","n","g",","," ","q","u","a","n","t","i",
          "t","y",","," ","i","s","_","a","c","t","i","v","e",","," ","c","r",
          "e","a","t","e","d","_","d","a","t","e","\n"," "," "," "," "," "," ",
          "F","R","O","M"," ","i","t","e","m","s","\n"," "," "," "," "," "," ",
          "W","H","E","R","E"," ","c","a","t","e","g","o","r","y"," ","="," ",
          "$","1","\n"," "," "," "," ">>
        \o ActiveOnly(includeInactive)
        \o <<" ","O","R","D","E","R"," ","B","Y"," ">> \o sort[1] \o <<" ">> \o sort[2]
        \o <<" ","L","I","M","I","T"," ","$">> \o <<Digits[1 + 1 + 1]>>,
        <<ParamStr(category), ParamNum(limit)>>))

getItemsByPriceRange ==
  \E minPrice \in {10}, maxPrice \in {50}, limit \in HelperLimits,
     includeInactive \in BOOLEAN :
    HelperCall("getItemsByPriceRange",
      HelperArgs(
        <<"\n"," "," "," "," "," "," ","S","E","L","E","C","T"," ","i","d",",",
          " ","n","a","m","e",","," ","d","e","s","c","r","i","p","t","i","o",
          "n",","," ","p","r","i","c","e",","," ","c","a","t","e","g","o","r",
          "y",","," ","r","a","t","i","n","g",","," ","q","u","a","n","t","i",
          "t","y",","," ","i","s","_","a","c","t","i","v","e","\n"," "," "," ",
          " "," "," ","F","R","O","M"," ","i","t","e","m","s","\n"," "," "," ",
          " "," "," ","W","H","E","R","E"," ","p","r","i","c","e"," ",">","=",
          " ","$","1"," ","A","N","D"," ","p","r","i","c","e"," ","<","="," ",
          "$","2","\n"," "," "," "," ">>
        \o ActiveOnly(includeInactive)
        \o <<" ","O","R","D","E","R"," ","B","Y"," ","p","r","i","c","e"," ",
             "A","S","C"," ","L","I","M","I","T"," ","$">> \o <<Digits[2 + 1 + 1]>>,
        <<ParamNum(minPrice), ParamNum(maxPrice), ParamNum(limit)>>))

getItemsByRating ==
  \E minRating \in {4}, limit \in HelperLimits, includeInactive \in BOOLEAN :
    HelperCall("getItemsByRating",
      HelperArgs(
        <<"\n"," "," "," "," "," "," ","S","E","L","E","C","T"," ","i","d",",",
          " ","n","a","m","e",","," ","d","e","s","c","r","i","p","t","i","o",
          "n",","," ","p","r","i","c","e",","," ","c","a","t","e","g","o","r",
          "y",","," ","r","a","t","i","n","g",","," ","q","u","a","n","t","i",
          "t","y",","," ","i","s","_","a","c","t","i","v","e","\n"," "," "," ",
          " "," "," ","F","R","O","M"," ","i","t","e","m","s","\n"," "," "," ",
          " "," "," ","W","H","E","R","E"," ","r","a","t","i","n","g"," ",">",
          "="," ","$","1","\n"," "," "," "," ">>
        \o ActiveOnly(includeInactive)
        \o <<" ","O","R","D","E","R"," ","B","Y"," ","r","a","t","i","n","g",
             " ","D","E","S","C"," ","L","I","M","I","T"," ","$">> \o <<Digits[1 + 1 + 1]>>,
        <<ParamNum(minRating), ParamNum(limit)>>))

getCategoryStats ==
  \E category \in Categories :
    HelperCall("getCategoryStats",
      HelperArgs(
        <<"\n"," "," "," "," "," "," ","S","E","L","E","C","T","\n"," "," ",
          " "," "," "," "," "," ","C","O","U","N","T","(","*",")"," ","a","s",
          " ","t","o","t","a","l","_","i","t","e","m","s",",","\n"," "," "," ",
          " "," "," "," "," ","C","O","U","N","T","(","C","A","S","E"," ","W",
          "H","E","N"," ","i","s","_","a","c","t","i","v","e"," ","="," ","t",
          "r","u","e"," ","T","H","E","N"," ","1"," ","E","N","D",")"," ","a",
          "s"," ","a","c","t","i","v","e","_","i","t","e","m","s",",","\n"," ",
          " "," "," "," "," "," "," ","A","V","G","(","p","r","i","c","e",")",
          " ","a","s"," ","a","v","e","r","a","g","e","_","p","r","i","c","e",
          ",","\n"," "," "," "," "," "," "," "," ","M","I","N","(","p","r","i",
          "c","e",")"," ","a","s"," ","m","i","n","_","p","r","i","c","e",",",
          "\n"," "," "," "," "," "," "," "," ","M","A","X","(","p","r","i","c",
          "e",")"," ","a","s"," ","m","a","x","_","p","r","i","c","e",",","\n",
          " "," "," "," "," "," "," "," ","A","V","G","(","r","a","t","i","n",
          "g",")"," ","a","s"," ","a","v","e","r","a","g","e","_","r","a","t",
          "i","n","g","\n"," "," "," "," "," "," ","F","R","O","M"," ","i","t",
          "e","m","s","\n"," "," "," "," "," "," ","W","H","E","R","E"," ","c",
          "a","t","e","g","o","r","y"," ","="," ","$","1","\n"," "," "," "," ">>,
        <<ParamStr(category)>>))

searchItemsByName ==
  \E searchTerm \in {"a"}, limit \in HelperLimits, includeInactive \in BOOLEAN :
    HelperCall("searchItemsByName",
      HelperArgs(
        <<"\n"," "," "," "," "," "," ","S","E","L","E","C","T"," ","i","d",",",
          " ","n","a","m","e",","," ","d","e","s","c","r","i","p","t","i","o",
          "n",","," ","p","r","i","c","e",","," ","c","a","t","e","g","o","r",
          "y",","," ","r","a","t","i","n","g",","," ","q","u","a","n","t","i",
          "t","y",","," ","i","s","_","a","c","t","i","v","e","\n"," "," "," ",
          " "," "," ","F","R","O","M"," ","i","t","e","m","s","\n"," "," "," ",
          " "," "," ","W","H","E","R","E"," ","n","a","m","e"," ","I","L","I",
          "K","E"," ","$","1","\n"," "," "," "," ">>
        \o ActiveOnly(includeInactive)
        \o <<" ","O","R","D","E","R"," ","B","Y"," ","n","a","m","e"," ","A",
             "S","C"," ","L","I","M","I","T"," ","$">> \o <<Digits[1 + 1 + 1]>>,
        <<ParamStr(<<"%", searchTerm, "%">>), ParamNum(limit)>>))

getAllCategories ==
  HelperCall("getAllCategories",
    HelperArgs(
      <<"\n"," "," "," "," "," "," ","S","E","L","E","C","T"," ","D","I","S",
          "T","I","N","C","T"," ","c","a","t","e","g","o","r","y","\n"," "," ",
          " "," "," "," ","F","R","O","M"," ","i","t","e","m","s","\n"," "," ",
          " "," "," "," ","W","H","E","R","E"," ","c","a","t","e","g","o","r",
          "y"," ","I","S"," ","N","O","T"," ","N","U","L","L","\n"," "," "," ",
          " "," "," ","O","R","D","E","R"," ","B","Y"," ","c","a","t","e","g",
          "o","r","y","\n"," "," "," "," ">>,
      <<>>))

\* filters.category is a category or undefined, filters.isActive a boolean or
\* undefined
getItemsCount ==
  \E category \in Categories \cup {"undefined"},
     isActive \in {"true", "false", "undefined"} :
    HelperCall("getItemsCount",
      HelperArgs(
        <<"S","E","L","E","C","T"," ","C","O","U","N","T","(","*",")"," ","a",
          "s"," ","t","o","t","a","l"," ","F","R","O","M"," ","i","t","e","m",
          "s"," ","W","H","E","R","E"," ","1","=","1">>
        \o (IF category # "undefined"
            THEN <<" ","A","N","D"," ","c","a","t","e","g","o","r","y"," ","=",
                   " ","$">> \o <<Digits[0 + 1 + 1]>>
            ELSE <<>>)
        \o (IF isActive # "undefined"
            THEN <<" ","A","N","D"," ","i","s","_","a","c","t","i","v","e"," ",
                   "="," ","$">>
                 \o <<Digits[(IF category # "undefined" THEN 1 ELSE 0) + 1 + 1]>>
            ELSE <<>>),
        (IF category # "undefined" THEN <<ParamStr(category)>> ELSE <<>>)
        \o (IF isActive # "undefined"
            THEN <<ParamBool(isActive = "true")>> ELSE <<>>)))

\* the store answers the awaited query; executeQuery runs to its end
HelperStoreAnswers ==
  /\ hq.pc = "awaiting"
  /\ \E resp \in HelperResponses(hq.log) :
       hq' = [hq EXCEPT !.pc = "done", !.answer = resp,
                        !.result = HelperResult(
                                     executeQuery_resume(hq.branch, resp),
                                     hq.query, hq.params)]
  /\ UNCHANGED notHelper

\* the caller has taken the result; the call is over
HelperReturns ==
  /\ hq.pc = "done"
  /\ hq' = IdleHelper
  /\ UNCHANGED notHelper

NextHelpers ==
  \/ getItemsByCategory
  \/ getItemsByPriceRange
  \/ getItemsByRating
  \/ getCategoryStats
  \/ searchItemsByName
  \/ getAllCategories
  \/ getItemsCount
  \/ HelperStoreAnswers
  \/ HelperReturns

SpecHelpers == Init /\ [][NextHelpers]_vars

\* both entry points of DatabaseService
SpecDatabaseService == Init /\ [][Next \/ NextHelpers]_vars

----------------------------------------------------------------------------
(* generateSQLQuery as the chat requests call it, once per request.        *)
(* Several requests may be in the function at once; each moves at the end   *)
(* of its own await.  The timer of a sleep is recorded by its delay; the    *)
(* time at which it fires is left to the clock.                             *)

MaxEarly == 1

q_cheap_toys ==
  <<"c","h","e","a","p"," ","t","o","y","s">>
q_all_books ==
  <<"a","l","l"," ","b","o","o","k","s">>
t_items == <<"i","t","e","m","s">>
s_items == SchemaOf(<<[table |-> t_items, columns |-> <<"name">>]>>)
s_items_wide == SchemaOf(<<[table |-> t_items, columns |-> <<"name", "price">>]>>)
\* the arguments: three keys, one of them reached from two schemas with the
\* same table names
GenerateArgs ==
  {<<q_cheap_toys, NoSchema>>, <<q_cheap_toys, s_items>>,
   <<q_cheap_toys, s_items_wide>>, <<q_all_books, s_items>>}

\* what the model answers: a statement, bare or in a code fence, or an error
ModelTexts == {<<"S","E","L","E","C","T"," ","*"," ","F","R","O","M"," ","i","t","e","m",
       "s">>, <<Grave, Grave, Grave>> \o <<"s","q","l","\n","S","E","L","E","C","T"," ","*"," ","F","R","O","M",
       " ","i","t","e","m","s",";","\n">>
     \o <<Grave, Grave, Grave>>, <<" ","S","E","L","E","C","T"," ","n","a","m","e"," ","F","R","O","M"," ",
       "i","t","e","m","s",";",";","\n">>}
ModelErrors ==
  {[message |-> <<"q","u","o","t","a"," ","e","x","c","e","e","d","e","d"," ","[","4","2",
       "9","]">>],
   [message |-> <<"5","0","0"," ","I","n","t","e","r","n","a","l"," ","S","e","r","v","e",
       "r"," ","E","r","r","o","r">>],
   [code |-> "ECONNRESET"]}
ModelResponses ==
  {[ok |-> TRUE, text |-> x] : x \in ModelTexts}
    \cup {[ok |-> FALSE, err |-> e] : e \in ModelErrors}

\* the times at which something happens: time 0, CACHE_TTL later, and a few
\* milliseconds before that
CacheTimePoints == {0} \cup {CACHE_TTL - j : j \in 0..MaxEarly}

\* const sqlQuery = await generateSQLQuery(message, schemas)
GenerateSQLQuery(r) ==
  /\ gem[r].pc = "idle"
  /\ \E a \in GenerateArgs :
       gem' = [gem EXCEPT ![r] = generateSQLQuery(queryCache, a[1], a[2], now)]
  /\ UNCHANGED <<queryCache, now>>
  /\ UNCHANGED notGem

\* model.generateContent(prompt) settles
ModelAnswers(r) ==
  /\ gem[r].pc = "generating"
  /\ \E resp \in ModelResponses :
       \E step \in {generateSQLQuery_resume(gem[r], queryCache, resp, now)} :
         /\ gem' = [gem EXCEPT ![r] = step.g]
         /\ queryCache' = step.cache
  /\ UNCHANGED now
  /\ UNCHANGED notGem

\* the setTimeout of the back-off fires
SleepEnds(r) ==
  /\ gem[r].pc = "sleeping"
  /\ gem' = [gem EXCEPT ![r] = generateSQLQuery_wake(gem[r])]
  /\ UNCHANGED <<queryCache, now>>
  /\ UNCHANGED notGem

\* Date.now() moves on
ClockAdvances ==
  /\ \E t \in CacheTimePoints : t > now /\ now' = t
  /\ UNCHANGED gemVars
  /\ UNCHANGED notGem

NextGemini ==
  \/ \E r \in Requests : GenerateSQLQuery(r)
  \/ \E r \in Requests : ModelAnswers(r)
  \/ \E r \in Requests : SleepEnds(r)
  \/ ClockAdvances

SpecGemini == Init /\ [][NextGemini]_vars

----------------------------------------------------------------------------
(* Properties.                                                             *)

\* the store calls of the current call, without the awaits
AwaitCount == Cardinality({k \in 1..Len(log) : log[k].op = "await"})

\* the text begins with the letters of SELECT, each in either case
BeginsWithSelectAnyCase(text) ==
  LET a == SkipSpace(text, 1)
  IN /\ a + 5 <= Len(text)
     /\ \A k \in 1..6 : text[a + k - 1] \in {w_SELECT[k], w_select[k]}

\* some maximal run of \w characters is a blocked keyword, in any letter case
HasBlockedWord(text) ==
  \E i \in WordStarts(text) :
    toUpperCase(SubSeq(text, i, SkipWord(text, i) - 1)) \in BlockedWords

\* a ';' is followed by more statement text
HasSecondStatement(text) ==
  \E i \in 1..Len(text) :
    /\ text[i] = ";"
    /\ \E j \in (i + 1)..Len(text) : text[j] # ";" /\ ~IsSpace(text[j])

HasFromTarget(text) == fromMatch(trim(StripSemis(text))).ok

FilterOps == {"eq", "lt", "gt", "gte", "lte", "ilike"}
BuilderOps == {"from", "select", "order", "limit", "await"}

IsIdentifier(text) == text # <<>> /\ \A k \in 1..Len(text) : IsWord(text[k])

IsNumberToken(text) ==
  /\ text # <<>>
  /\ \A k \in 1..Len(text) : IsDigit(text[k]) \/ text[k] = "."

\* the value is a literal written in the statement
IsLiteralOf(value, text, ts) ==
  IF value.t = "str"
  THEN /\ \A k \in 1..Len(value.s) : value.s[k] # "'"
       /\ includes(text, <<"'">> \o value.s \o <<"'">>)
  ELSE \/ \E k \in 1..Len(ts) :
            IsNumberToken(ts[k]) /\ parseFloat(ts[k]) = value.n
       \/ \E i \in 1..Len(text) : \E j \in i..Len(text) :
            /\ \A k \in i..j : IsDigit(text[k])
            /\ parseFloat(SubSeq(text, i, j)) = value.n

\* C1: when isSafeQuery returns false, executeDynamicQuery makes no call on
\* the store client and returns success = false.
C1_UnsafeStopsAtValidation ==
  pc # "idle" =>
    \/ /\ pc = "done"
       /\ log = <<>>
       /\ outcome = "returned"
       /\ result.success = FALSE
    \/ isSafeQuery(sql)

C1_Witness ==
  /\ pc = "done"
  /\ BeginsWithSelectAnyCase(sql)
  /\ ~isSafeQuery(sql)
  /\ log = <<>>
  /\ result.success = FALSE

\* C2: a statement whose normalised, trimmed, upper-cased text does not begin
\* with SELECT is rejected by isSafeQuery; one that begins with select in any
\* mix of letter case is rejected only for a blocked keyword.
C2_MustStartWithSelect ==
  pc # "idle" =>
    /\ ~startsWith(toUpperCase(trim(CollapseSpaces(sql))), kSELECT)
         => ~isSafeQuery(sql)
    /\ (BeginsWithSelectAnyCase(sql) /\ ~isSafeQuery(sql)) => HasBlockedWord(sql)

C2_Witness ==
  /\ pc = "awaiting"
  /\ toks[1] = w_SeLeCt
  /\ isSafeQuery(sql)

\* C3: isSafeQuery rejects every statement that holds a blocked keyword as a
\* whole word, in any letter case, and accepts a SELECT in which the keywords
\* occur only inside longer identifiers (created_date).
C3_BlockedWordsAreWholeWords ==
  pc # "idle" =>
    /\ HasBlockedWord(sql) => ~isSafeQuery(sql)
    /\ (BeginsWithSelectAnyCase(sql) /\ ~HasBlockedWord(sql)) => isSafeQuery(sql)

C3_Witness ==
  /\ pc = "awaiting"
  /\ toks = <<w_SELECT, w_created_date, w_FROM, w_items>>
  /\ isSafeQuery(sql)

\* C4: a text with a second statement after a ';' is rejected by isSafeQuery
\* and never reaches the store.
C4_MultiStatementRejected ==
  (pc # "idle" /\ HasSecondStatement(sql)) =>
    (~isSafeQuery(sql) /\ pc # "awaiting")

C6_NoTableAlwaysFails ==
  (pc = "done" /\ isSafeQuery(sql) /\ ~HasFromTarget(sql)) =>
    result.success = FALSE

\* C6 as amended: a validated statement without a FROM target returns the
\* parse failure, unless its text without trailing ';' and surrounding white
\* space is SELECT 1 in any letter case, which returns the row {result: 1}.
C6_NoTableFailsUnlessSelect1 ==
  (pc = "done" /\ isSafeQuery(sql) /\ ~HasFromTarget(sql)) =>
    IF toUpperCase(trim(StripSemis(sql))) = kSELECT_1
    THEN /\ result.success = TRUE
         /\ result.data = <<[result |-> 1]>>
         /\ result.count = 1
    ELSE /\ result.success = FALSE
         /\ result.error = "Could not parse table name from query"

C6_Witness ==
  /\ pc = "done"
  /\ isSafeQuery(sql)
  /\ ~HasFromTarget(sql)
  /\ toks = <<w_SELECT, star, w_FROM>>
  /\ result.success = FALSE

\* C7: executeDynamicQuery always returns; a failure is an object with
\* success = false, an error message and the query, and neither data nor
\* count.
ErrorMessages ==
  {"Query contains unsafe operations", "Only SELECT queries are allowed",
   "Could not parse table name from query"} \cup StoreErrors

C7_FailuresAreReturned ==
  pc = "done" =>
    /\ outcome = "returned"
    /\ result.success \in BOOLEAN
    /\ result.success = FALSE =>
         /\ DOMAIN result = {"success", "error", "query"}
         /\ result.error \in ErrorMessages
    /\ (~answer.ok \/ ~isSafeQuery(sql)) => result.success = FALSE

C7_Witness ==
  /\ pc = "done"
  /\ ~answer.ok
  /\ outcome = "returned"
  /\ result.success = FALSE
  /\ result.error \in StoreErrors

\* C8: a validated statement with a FROM target awaits the store exactly
\* once, as the last call made; a store error is returned with the store's
\* message and nothing is awaited again.
C8_OneRoundTrip ==
  /\ (pc # "idle" /\ isSafeQuery(sql) /\ HasFromTarget(sql)) =>
       /\ AwaitCount = 1
       /\ log[Len(log)] = Await
  /\ (pc = "done" /\ log # <<>> /\ ~answer.ok) =>
       /\ result.success = FALSE
       /\ result.error = answer.message

C8_Witness ==
  /\ pc = "done"
  /\ frame.mode = "count"
  /\ frame.grouped
  /\ Len(log) > Len(frame.query) + 1
  /\ AwaitCount = 1
  /\ ~answer.ok
  /\ result.error = answer.message

\* C9: a statement of the supported shape with one separator replaced by a
\* newline or by several spaces sends the same table, projection, distinct
\* flag, predicates, ordering and limit to the store as its single-line form.
C9_MultiLineParsesIdentically ==
  (pc = "awaiting" /\ toks \in MultiLineStatements) =>
    LET single == executeDynamicQuery(SingleLine(toks))
    IN /\ single.kind = "await"
       /\ frame.query = single.frame.query
       /\ frame.isDistinct = single.frame.isDistinct

FilterName(op) ==
  CASE op = opEq -> "eq" [] op = opLt -> "lt" [] op = opGt -> "gt"
    [] op = opLte -> "lte" [] op = opGte -> "gte"

\* C10: SELECT * FROM t WHERE c op n [LIMIT m] queries table t with all
\* columns, the one filter matching op on column c with value parseFloat(n),
\* and limit m exactly when LIMIT m is written.
C10_ComparisonTranslation ==
  (pc = "awaiting" /\ toks \in ComparisonStatements) =>
    frame.query =
      <<From(toks[4]), Select(star, "none", FALSE),
        Filter(FilterName(toks[7]), toks[6], NumVal(toks[8]))>>
      \o (IF Len(toks) = 10 THEN <<Limit(parseInt(toks[10]))>> ELSE <<>>)

\* the filter calls of a builder, in the order they were chained
FilterCalls(query) == SelectSeq(query, LAMBDA c : c.op \in FilterOps)

\* the filters one condition of the WHERE text stands for
ExpectedFilters(cond) ==
  IF cond[2] = w_BETWEEN
  THEN {Filter("gte", cond[1], NumVal(cond[3])),
        Filter("lte", cond[1], NumVal(cond[5]))}
  ELSE IF cond[2] = w_ILIKE
  THEN {Filter("ilike", cond[1], StrVal(SubSeq(cond[3], 2, Len(cond[3]) - 1)))}
  ELSE IF cond[3][1] = "'"
  THEN {Filter("eq", cond[1], StrVal(SubSeq(cond[3], 2, Len(cond[3]) - 1)))}
  ELSE {Filter(FilterName(cond[2]), cond[1], NumVal(cond[3]))}

\* C11: for WHERE c1 AND c2 with c1, c2 supported conditions, the builder
\* carries the filters of both conditions (two for a BETWEEN) and no others.
C11_EveryConditionApplied ==
  pc = "awaiting" =>
    \A c1 \in SupportedConditions, c2 \in SupportedConditions :
      toks = ConjunctionOf(c1, c2) =>
        /\ \A f \in ExpectedFilters(c1) \cup ExpectedFilters(c2) :
             \E k \in 1..Len(frame.query) : frame.query[k] = f
        /\ Len(FilterCalls(frame.query))
             = Cardinality(ExpectedFilters(c1)) + Cardinality(ExpectedFilters(c2))

SelectCalls(query) == SelectSeq(query, LAMBDA c : c.op = "select")

NoRepeats(rows) ==
  \A i \in 1..Len(rows), j \in 1..Len(rows) : i < j => rows[i] # rows[j]

\* C13: for SELECT DISTINCT cols FROM t ... the distinct flag is set, the
\* select call receives a column list without the word DISTINCT, and the rows
\* returned on success hold no row twice.
C13_DistinctStripped ==
  (/\ pc \in {"awaiting", "done"}
   /\ frame.mode = "select"
   /\ Len(toks) >= 2
   /\ toks[2] = w_DISTINCT) =>
    /\ frame.isDistinct
    /\ \A k \in 1..Len(frame.query) :
         frame.query[k].op = "select" =>
           ~includes(toUpperCase(frame.query[k].columns), w_DISTINCT)
    /\ (pc = "done" /\ answer.ok) => NoRepeats(result.data)

\* the place of the first row equal to r
FirstIndex(rows, r) ==
  CHOOSE i \in 1..Len(rows) :
    rows[i] = r /\ \A k \in 1..(i - 1) : rows[k] # r

\* C14: after a successful DISTINCT select the returned list holds no row
\* twice, holds every row the store returned and only such rows, and keeps
\* the rows in the order of their first occurrence in the store's rows.
C14_DedupKeepsFirstOccurrences ==
  (/\ pc = "done"
   /\ frame.mode = "select"
   /\ frame.isDistinct
   /\ answer.ok) =>
    /\ NoRepeats(result.data)
    /\ \A i \in 1..Len(answer.data) :
         \E j \in 1..Len(result.data) : result.data[j] = answer.data[i]
    /\ \A j \in 1..Len(result.data) :
         \E i \in 1..Len(answer.data) : answer.data[i] = result.data[j]
    /\ \A i \in 1..Len(result.data), j \in 1..Len(result.data) :
         i < j => FirstIndex(answer.data, result.data[i])
                    < FirstIndex(answer.data, result.data[j])
    /\ result.count = Len(result.data)

C14_Witness ==
  /\ pc = "done"
  /\ frame.isDistinct
  /\ answer.ok
  /\ Len(answer.data) = 3
  /\ answer.data[1] = answer.data[3]
  /\ answer.data[1] # answer.data[2]
  /\ result.data = <<answer.data[1], answer.data[2]>>

\* C15: a COUNT(*) statement without GROUP BY asks the store for the count
\* only (count exact, head true), so that no rows come back, and returns the
\* single row {total: count}.
C15_CountFetchesNoRows ==
  (/\ pc \in {"awaiting", "done"}
   /\ frame.mode = "count"
   /\ ~frame.grouped
   /\ toks[2] = w_count) =>
    /\ \A k \in 1..Len(log) :
         log[k].op = "select" => log[k].count = "exact" /\ log[k].head
    /\ (pc = "done" /\ answer.ok) =>
         /\ answer.data = <<>>
         /\ result.data = <<[total |-> answer.count]>>

\* the rows that group the fetched rows by category: one row per value with
\* the number of fetched rows that have it
CategoryCount(rows, v) ==
  Cardinality({i \in 1..Len(rows) : rows[i].category = v})

\* C16: a statement with GROUP BY category returns one row {category, count}
\* per distinct category of the fetched rows, count being the number of fetched
\* rows of that category, sorted by count in descending order.
C16_GroupedRowsAreCounts ==
  (/\ pc = "done"
   /\ frame.mode = "count"
   /\ frame.grouped
   /\ answer.ok) =>
    /\ \A j \in 1..Len(result.data) :
         /\ DOMAIN result.data[j] = {"category", "count"}
         /\ result.data[j].count
              = CategoryCount(answer.data, result.data[j].category)
         /\ result.data[j].count >= 1
    /\ \A i \in 1..Len(answer.data) :
         \E j \in 1..Len(result.data) :
           "category" \in DOMAIN result.data[j]
           /\ result.data[j].category = answer.data[i].category
    /\ \A i \in 1..Len(result.data), j \in 1..Len(result.data) :
         i < j => /\ result.data[i].category # result.data[j].category
                  /\ result.data[i].count >= result.data[j].count

\* C17: the check made on entry to executeDynamicQuery and the check made
\* before parseAndExecuteSQL builds the store query give the same verdict on
\* every statement.
C17_BothChecksAgree ==
  pc # "idle" => (isSafeQuery(sql) <=> additionalSafetyCheck(sql))

\* C18: a statement that names two tables (JOIN or a comma-separated FROM
\* list) ends with success = false.
C18_MultiTableNeverSucceeds ==
  (pc = "done" /\ toks \in MultiTableStatements) =>
    /\ outcome = "returned"
    /\ result.success = FALSE

LimitCalls(query) == SelectSeq(query, LAMBDA c : c.op = "limit")

\* C19: SELECT * FROM items applies no limit; SELECT * FROM items LIMIT n
\* applies exactly one limit, whose value is n and is at least 1.
C19_LimitIsPositiveAndAsWritten ==
  (pc = "awaiting" /\ toks \in LimitStatements) =>
    IF Len(toks) = 4
    THEN LimitCalls(frame.query) = <<>>
    ELSE /\ Len(LimitCalls(frame.query)) = 1
         /\ LimitCalls(frame.query)[1].n = DigitsValue(toks[6])
         /\ LimitCalls(frame.query)[1].n >= 1

OrderCalls(query) == SelectSeq(query, LAMBDA c : c.op = "order")

\* C20: SELECT * FROM items ORDER BY c [dir] [, more terms] [LIMIT n] makes
\* exactly one order call, on c, descending exactly when dir is DESC in any
\* letter case; SELECT * FROM items [LIMIT n] makes no order call.
C20_OrderByFirstTerm ==
  pc = "awaiting" =>
    /\ \A term \in OrderTerms, lim \in LimitClauses :
         toks = OrderStatementOf(term, lim) =>
           OrderCalls(frame.query) = <<Order(term.column, ~term.descending)>>
    /\ toks \in LimitStatements => OrderCalls(frame.query) = <<>>

\* call j is verifyOTP on phone p, call i the storeOTP that wrote the entry it
\* looks up (the last storeOTP for p before it)
IsVerify(j, p) == otpCalls[j].op = "verify" /\ otpCalls[j].phone = p
IsStore(i, p) == otpCalls[i].op = "store" /\ otpCalls[i].phone = p
StoredFor(i, j, p) ==
  /\ i < j
  /\ IsStore(i, p)
  /\ \A k \in (i + 1)..(j - 1) : ~IsStore(k, p)

\* C21: a successful verifyOTP removes the entry of its phone, and of two
\* successful verifyOTP calls for one phone the later one follows a storeOTP
\* for that phone made after the earlier one.
C21_OtpSingleUse ==
  /\ \A p \in Phones :
       \A i \in 1..Len(otpCalls), j \in 1..Len(otpCalls) :
         (i < j /\ IsVerify(i, p) /\ otpCalls[i].success
                /\ IsVerify(j, p) /\ otpCalls[j].success) =>
           \E k \in (i + 1)..(j - 1) : IsStore(k, p)
  /\ \A p \in Phones :
       (otpCalls # <<>> /\ IsVerify(Len(otpCalls), p)
          /\ otpCalls[Len(otpCalls)].success) => p \notin DOMAIN otpStore
  /\ \A p \in Phones, j \in 1..Len(otpCalls) :
       (IsVerify(j, p) /\ otpCalls[j].success) => \E i \in 1..(j - 1) : StoredFor(i, j, p)

C21_Witness ==
  /\ Len(otpCalls) = 3
  /\ otpCalls[1].op = "store"
  /\ otpCalls[2].op = "verify" /\ otpCalls[2].success
  /\ otpCalls[3].op = "verify" /\ ~otpCalls[3].success
  /\ otpCalls[3].phone = otpCalls[2].phone
  /\ otpCalls[3].otp = otpCalls[2].otp
  /\ otpCalls[3].message = "No OTP found for this phone number"

\* C22: verifyOTP does not succeed later than 5 minutes after the storeOTP
\* that wrote the entry; a verifyOTP made later than that fails and leaves no
\* entry for the phone, and cleanupExpiredOTPs leaves no expired entry.
C22_OtpExpires ==
  /\ \A p \in Phones :
       \A i \in 1..Len(otpCalls), j \in 1..Len(otpCalls) :
         (StoredFor(i, j, p) /\ IsVerify(j, p)
            /\ otpCalls[j].at > otpCalls[i].at + 5 * 60 * 1000) =>
           /\ ~otpCalls[j].success
           /\ j = Len(otpCalls) => p \notin DOMAIN otpStore
  /\ (otpCalls # <<>> /\ otpCalls[Len(otpCalls)].op = "cleanup") =>
       \A p \in DOMAIN otpStore :
         otpStore[p].expiresAt >= otpCalls[Len(otpCalls)].at

C22_Witness ==
  /\ Len(otpCalls) = 2
  /\ otpCalls[1].op = "store"
  /\ otpCalls[2].op = "verify"
  /\ otpCalls[2].phone = otpCalls[1].phone
  /\ otpCalls[2].otp = otpCalls[1].otp
  /\ otpCalls[2].at = otpCalls[1].at + 5 * 60 * 1000 + 1
  /\ otpCalls[2].message = "OTP has expired"
  /\ otpStore = EmptyMap

HelperLogHas(call) == \E k \in 1..Len(hq.log) : hq.log[k] = call

\* C23: getItemsByPriceRange(min, max, {limit}) hands the store gte(price, min),
\* lte(price, max) and limit(limit); getItemsByCategory(category, {limit})
\* hands it eq(category, category) and limit(limit).
C23_ParametersBoundByPosition ==
  hq.pc = "awaiting" =>
    /\ hq.helper = "getItemsByPriceRange" =>
         /\ HelperLogHas(Filter("gte", w_price, hq.params[1]))
         /\ HelperLogHas(Filter("lte", w_price, hq.params[2]))
         /\ HelperLogHas(Limit(hq.params[3]))
    /\ hq.helper = "getItemsByCategory" =>
         /\ HelperLogHas(Filter("eq", w_category, hq.params[1]))
         /\ HelperLogHas(Limit(hq.params[2]))

\* C24: getAllCategories takes the distinct-category branch of executeQuery
\* and returns each category of the fetched rows once, as rows {category},
\* in sorted order.
C24_AllCategoriesDistinctSorted ==
  (hq.helper = "getAllCategories" /\ hq.pc \in {"awaiting", "done"}) =>
    /\ hq.branch = "distinct"
    /\ (hq.pc = "done" /\ hq.answer.ok) =>
         /\ hq.result.success
         /\ hq.result.data =
              [k \in 1..Len(uniqueCategories(hq.answer.data)) |->
                 [category |-> uniqueCategories(hq.answer.data)[k]]]

\* C25: every statement a helper method builds passes the isSafeQuery of
\* src/services/geminiService.js.
C25_HelperStatementsAreSafe ==
  hq.pc # "idle" => legacy_isSafeQuery(hq.query)

\* C29: in every result returned with success = true, by executeDynamicQuery
\* or by executeQuery, data is a list and count is its length.
C29_CountIsNumberOfRows ==
  /\ (pc = "done" /\ outcome = "returned" /\ result.success) =>
       /\ DOMAIN result.data = 1..Len(result.data)
       /\ result.count = Len(result.data)
  /\ (hq.pc = "done" /\ hq.result.success) =>
       /\ DOMAIN hq.result.data = 1..Len(hq.result.data)
       /\ hq.result.count = Len(hq.result.data)

C29_Witness ==
  /\ hq.pc = "done"
  /\ hq.branch = "count"
  /\ hq.answer.ok
  /\ hq.answer.count > 1
  /\ hq.result.success
  /\ hq.result.data = <<[total |-> hq.answer.count]>>
  /\ hq.result.count = 1

\* C28: SELECT * FROM items WHERE name = 'literal' makes exactly one filter
\* call, eq(name, literal), whatever is written inside the literal.
C28_LiteralTextIsNotACondition ==
  (pc = "awaiting" /\ toks \in QuotedLiteralStatements) =>
    FilterCalls(frame.query) =
      <<Filter("eq", w_name, StrVal(SubSeq(toks[8], 2, Len(toks[8]) - 1)))>>

Min(a, b) == IF a <= b THEN a ELSE b

\* C30: SELECT DISTINCT category FROM items LIMIT n returns min(n, d) rows,
\* d being the number of distinct rows of the table: whatever table the
\* store's answer is the first n rows of.
C30_DistinctBeforeLimit ==
  (pc = "done" /\ toks \in DistinctLimitStatements /\ answer.ok) =>
    \A table \in RowLists :
      answer.data = SubSeq(table, 1, Min(DigitsValue(toks[7]), Len(table))) =>
        Len(result.data)
          = Min(DigitsValue(toks[7]),
                Cardinality({table[i] : i \in 1..Len(table)}))

\* the table names of a schema argument
TableNames(schema) ==
  IF schema = NoSchema THEN <<"default">>
  ELSE <<"tables", [i \in 1..Len(schema.tables) |-> schema.tables[i].table]>>

IsFreshEntry(key) ==
  key \in DOMAIN queryCache /\ now - queryCache[key].timestamp < CACHE_TTL

\* one step of request r, as C26 reads it
C26_Step(r) ==
  /\ gem[r].pc = "idle" /\ gem'[r].pc # "idle" =>
       /\ queryCache' = queryCache
       /\ IF IsFreshEntry(gem'[r].key)
          THEN /\ gem'[r].pc = "returned"
               /\ gem'[r].calls = 0
               /\ gem'[r].out = queryCache[gem'[r].key].query
          ELSE /\ gem'[r].pc = "generating"
               /\ gem'[r].calls = 1
  /\ gem[r].pc = "generating" /\ gem'[r].pc = "returned" =>
       /\ DOMAIN queryCache' = DOMAIN queryCache \cup {gem[r].key}
       /\ queryCache'[gem[r].key] = [query |-> gem'[r].out, timestamp |-> now]
       /\ \A k \in DOMAIN queryCache \ {gem[r].key} :
            queryCache'[k] = queryCache[k]
  /\ gem[r].pc # "threw" /\ gem'[r].pc = "threw" => queryCache' = queryCache

\* C26: a call returns the cached text, without a call of the model, exactly
\* when an entry for its key (question plus table names) exists and is
\* younger than CACHE_TTL; otherwise the model is called.  A successful
\* generation puts the new text and the current time under the key, and
\* nothing else changes the cache: a failed generation writes nothing.
C26_CacheServedOnlyWhenFresh ==
  [][/\ \A r \in Requests : C26_Step(r)
     /\ \A a \in GenerateArgs, b \in GenerateArgs :
          cacheKey(a[1], a[2]) = cacheKey(b[1], b[2])
            <=> (a[1] = b[1] /\ TableNames(a[2]) = TableNames(b[2]))
     /\ queryCache' # queryCache =>
          \E r \in Requests :
            gem[r].pc = "generating" /\ gem'[r].pc = "returned"]_vars

\* an entry written at time 0 was found at age CACHE_TTL: the model was
\* called and the entry replaced by a different text
C26_Witness ==
  \E r \in Requests :
    /\ gem[r].pc = "returned"
    /\ gem[r].calls = 1
    /\ gem[r].cached # NoEntry
    /\ gem[r].cached.timestamp = 0
    /\ queryCache[gem[r].key].timestamp = CACHE_TTL
    /\ queryCache[gem[r].key].query = gem[r].out
    /\ gem[r].out # gem[r].cached.query

InLoop(r) == gem[r].pc \in {"generating", "sleeping"}
Ended(r) == gem[r].pc \in {"returned", "threw"}

\* how far request r is in its loop: every step of the loop raises it
LoopProgress(g) == 2 * g.calls + (IF g.pc = "sleeping" THEN 1 ELSE 0)

\* one step of request r, as C27 reads it
C27_Step(r) ==
  /\ InLoop(r) /\ gem'[r] # gem[r] =>
       Ended(r)' \/ LoopProgress(gem'[r]) > LoopProgress(gem[r])
  /\ gem'[r].calls # gem[r].calls /\ gem[r].pc # "idle" =>
       /\ gem[r].pc = "sleeping"
       /\ gem'[r].calls = gem[r].calls + 1
       /\ gem'[r].pc = "generating"
  /\ gem'[r].pc = "sleeping" =>
       /\ "message" \in DOMAIN gem'[r].err
       /\ includes(gem'[r].err.message, <<"4","2","9">>)
  /\ gem[r].pc = "generating" /\ gem'[r] # gem[r] =>
       gem'[r].pc \in {"returned", "sleeping", "threw"}
  /\ gem[r].pc = "sleeping" /\ gem[r].calls = 5 /\ gem'[r] # gem[r] =>
       gem'[r].pc = "threw"
  /\ gem'[r].pc = "threw" => gem'[r].out = kFailedToGenerate
  /\ Ended(r) => gem'[r] = gem[r]

\* C27: the retry loop ends: at most 5 calls of the model per invocation,
\* every step of the loop ends the call or brings it nearer to the 5th call,
\* a further call is made only after a sleep that followed an error with
\* '429' in its message, every other answer of the model ends the call (a
\* response with a return, an error with a throw), and the sleep after the
\* 5th rate-limited call ends in a throw.
C27_RetryLoopTerminates ==
  /\ [](\A r \in Requests : gem[r].calls <= 5)
  /\ [][\A r \in Requests : C27_Step(r)]_vars

\* a call that failed after 5 rate-limited calls of the model
C27_Witness ==
  \E r \in Requests :
    /\ gem[r].pc = "threw"
    /\ gem[r].calls = 5
    /\ gem[r].retries = 0
    /\ gem[r].out = kFailedToGenerate

====
